---- MODULE Spec2Model ----
(***************************************************************************)
(* The natural-language-to-SQL pipeline of yashbhoomkar/ragas:             *)
(*   rag/prompt_enhancer.py   enhance_question                             *)
(*   rag/query_generator.py   generate_sql                                 *)
(*   rag/rag_pipeline.py      execute_sql, main                            *)
(*   rag/result_interpreter.py interpret_result                            *)
(*   rag/utils.py             load_and_format_schema, log_interaction      *)
(*   evaluation/rag_evaluator.py RAGEvaluator                              *)
(*   evaluation/test_cases.py TestCaseGenerator._execute_query             *)
(*   evaluation/ground_truth_generator.py GroundTruthGenerator             *)
(*                                                                         *)
(* Text is a sequence of tokens; the token " " is whitespace, so that      *)
(* str.strip() is something the model computes.  A Python value whose type *)
(* the code inspects (None, str, list) is a record [t, v] tagged with its  *)
(* type.  The language model (ollama.chat) and the file system are the     *)
(* environment: each call draws its outcome from a small set.              *)
(*                                                                         *)
(* Spec runs the two orchestrators one run after another; InterpSpec,      *)
(* SchemaSpec and EnhanceSpec call one function on its own; ConcSpec       *)
(* interleaves several runs, and there pc, run, loc, ret, calls and chats  *)
(* hold one value per run.  EvalSpec is RAGEvaluator as its tests and      *)
(* evaluate_pipeline use it: there pc is the pass of evaluate_pipeline,    *)
(* loc its locals, arg its test cases, ret the mapping it returns and      *)
(* nRuns the run_pipeline_step calls made.  GenSpec calls the helpers of   *)
(* evaluation/test_cases.py and evaluation/ground_truth_generator.py:      *)
(* there calls is the history of the process, loc the ground truths        *)
(* generated, ret the last validation result and nRuns the calls made.     *)
(***************************************************************************)
EXTENDS Integers, Sequences, FiniteSets, TLC

VARIABLES
    pc,         \* position of the orchestrator: idle, enhance, generate, execute, interpret, done
    run,        \* the current run: entry point, raw question, schema file and loaded schema
    loc,        \* the orchestrator's locals: enhanced_question, sql_query, columns, results
    ret,        \* value returned by run_pipeline_step (None until it returns; main returns None)
    stdout,     \* what main wrote to the terminal in this run
    escaped,    \* the exception that left the entry point, if any
    calls,      \* the stage calls of this run, in order, with arguments and outcome
    chats,      \* the requests this run sent to ollama.chat
    log,        \* logs/rag.log: the records the root logger has written
    evalLog,    \* logs/rag_evaluation.log: the records of the "rag_evaluator" logger
    db,         \* the committed content of the database file
    openConns,  \* sqlite3 connections opened and not yet closed
    nRuns,      \* pipeline runs started so far
    arg,        \* inputs of a direct call (InterpSpec, SchemaSpec, EnhanceSpec)
    handlers    \* file handlers attached to the "rag_evaluator" logger

vars == <<pc, run, loc, ret, stdout, escaped, calls, chats, log, evalLog, db,
          openConns, nRuns, arg, handlers>>

---------------------------------------------------------------------------
(* Bounds of the model *)

MaxRuns == 2

NumCustomers == 11

MaxData == 3

MaxN == 3

---------------------------------------------------------------------------
(* Python values *)

None == [t |-> "NoneType", v |-> <<>>]

Str(s) == [t |-> "str", v |-> s]

List(l) == [t |-> "list", v |-> l]

isinstance(x, type) == x.t = type

Ok(value) == [raised |-> FALSE, value |-> value, msg |-> <<>>]

Raise(msg) == [raised |-> TRUE, value |-> None, msg |-> msg]

NoException == [raised |-> FALSE, msg |-> <<>>]

IsWS(tok) == tok \in {" ", "\n"}

RECURSIVE lstrip(_)
lstrip(s) == IF s # <<>> /\ IsWS(Head(s)) THEN lstrip(Tail(s)) ELSE s

RECURSIVE rstrip(_)
rstrip(s) ==
    IF s # <<>> /\ IsWS(s[Len(s)]) THEN rstrip(SubSeq(s, 1, Len(s) - 1)) ELSE s

strip(s) == rstrip(lstrip(s))

Min(a, b) == IF a < b THEN a ELSE b

Max(a, b) == IF a > b THEN a ELSE b

\* data[:n] of a Python list: a negative n counts from the end
SliceTo(data, n) ==
    IF n >= 0 THEN SubSeq(data, 1, Min(n, Len(data)))
    ELSE SubSeq(data, 1, Max(Len(data) + n, 0))

---------------------------------------------------------------------------
(* The database file: one table, customers(id, name).  *)

CustomerRows == [i \in 1..NumCustomers |-> <<ToString(i), "Customer">>]

InitDB == [exists |-> TRUE, rows |-> CustomerRows]

SelNames == "SELECT name FROM customers"

SelAll == "SELECT id, name FROM customers"

SelNone == "SELECT name FROM customers WHERE id = 999"

SelMissing == "SELECT * FROM nonexistent_table"

InvalidSql == "INVALID SQL QUERY"

DeleteSql == "DELETE FROM customers"

DropSql == "DROP TABLE customers"

NoSuchCustomers == [raised |-> TRUE, msg |-> <<"no such table: customers">>,
                    description |-> None, rows |-> <<>>]

\* a description with one column more than the rows have values
Description_extra(names) ==
    List([i \in 1..(Len(names) + 1) |->
            IF i <= Len(names) THEN <<names[i], "None">> ELSE <<"rowid", "None">>])

\* cursor.description of a result set: one tuple per column, the name first
Description(names) == List([i \in 1..Len(names) |-> <<names[i], "None">>])

\* conn.close() after statement s with a commit before it
closed_after_commit(s, d) ==
    IF s = <<DropSql>> /\ d.exists THEN [exists |-> FALSE, rows |-> <<>>]
    ELSE IF s = <<DeleteSql>> /\ d.exists THEN [exists |-> TRUE, rows |-> <<>>]
    ELSE d

\* conn.close() after statement s, no commit having been made (lines 16, 19):
\* only what sqlite3 committed by itself, a DROP TABLE, stays in the file
closed_without_commit(s, d) ==
    IF s = <<DropSql>> /\ d.exists THEN [exists |-> FALSE, rows |-> <<>>] ELSE d

\* cursor.execute(query) followed by cursor.fetchall() on database d.  `after`
\* is the file's content once the connection is closed without a commit: the
\* sqlite3 module opens a transaction before a DELETE, which close() rolls back,
\* while a DROP TABLE is committed at once.
sqlite3_execute(query, d) ==
    LET s == strip(query)
        r == CASE s = <<>> ->
                    [raised |-> FALSE, msg |-> <<>>, description |-> None, rows |-> <<>>]
              [] s = <<SelNames>> ->
                    IF d.exists
                    THEN [raised |-> FALSE, msg |-> <<>>,
                          description |-> Description(<<"name">>),
                          rows |-> [i \in 1..Len(d.rows) |-> <<d.rows[i][2]>>]]
                    ELSE NoSuchCustomers
              [] s = <<SelAll>> ->
                    IF d.exists
                    THEN [raised |-> FALSE, msg |-> <<>>,
                          description |-> Description(<<"id", "name">>),
                          rows |-> d.rows]
                    ELSE NoSuchCustomers
              [] s = <<SelNone>> ->
                    IF d.exists
                    THEN [raised |-> FALSE, msg |-> <<>>,
                          description |-> Description(<<"name">>), rows |-> <<>>]
                    ELSE NoSuchCustomers
              [] s = <<SelMissing>> ->
                    [raised |-> TRUE, msg |-> <<"no such table: nonexistent_table">>,
                     description |-> None, rows |-> <<>>]
              [] s = <<DeleteSql>> ->
                    IF d.exists
                    THEN [raised |-> FALSE, msg |-> <<>>, description |-> None, rows |-> <<>>]
                    ELSE NoSuchCustomers
              [] s = <<DropSql>> ->
                    IF d.exists
                    THEN [raised |-> FALSE, msg |-> <<>>, description |-> None, rows |-> <<>>]
                    ELSE NoSuchCustomers
              [] OTHER ->
                    [raised |-> TRUE, msg |-> <<"near \"INVALID\": syntax error">>,
                     description |-> None, rows |-> <<>>]
    IN [raised |-> r.raised, msg |-> r.msg, description |-> r.description,
        rows |-> r.rows,
        after |-> closed_without_commit(s, d)]

---------------------------------------------------------------------------
(* rag/rag_pipeline.py: execute_sql *)

ExecErrorMarker == "(x) Error executing query: "

\* execute_sql_except with an empty column list in place of None
execute_sql_except_columns(msg) ==
    [columns |-> List(<<>>), results |-> Str(<<ExecErrorMarker>> \o msg), closed |-> 1]

\* execute_sql_except without the conn.close() of line 19
execute_sql_except_leak(msg) ==
    [columns |-> None, results |-> Str(<<ExecErrorMarker>> \o msg), closed |-> 0]

\* lines 18-20: the except branch closes the connection and returns the pair
\* (None, marker + str(e))
execute_sql_except(msg) ==
    [columns |-> None, results |-> Str(<<ExecErrorMarker>> \o msg), closed |-> 1]

\* lines 15-17: the column names, the close, the pair (columns, results)
execute_sql_success(description, rows) ==
    [columns |-> List([i \in 1..Len(description) |-> description[i][1]]),
     results |-> List(rows), closed |-> 1]

\* execute_sql refusing a statement that is not a SELECT instead of running it
execute_sql_guarded(query, reachable, d, fetchFault) ==
    IF ~reachable
    THEN [raised |-> TRUE, msg |-> <<"unable to open database file">>,
          columns |-> None, results |-> None, opened |-> 0, closed |-> 0,
          db |-> d, executed |-> <<>>]
    ELSE IF strip(query) \in {<<DeleteSql>>, <<DropSql>>}
    THEN [raised |-> FALSE, msg |-> <<>>,
          columns |-> None,
          results |-> Str(<<ExecErrorMarker, "statement not allowed">>),
          opened |-> 1, closed |-> 1, db |-> d, executed |-> <<>>]
    ELSE LET r == sqlite3_execute(query, d)
             out == IF r.raised THEN execute_sql_except(r.msg)
                    ELSE IF fetchFault THEN execute_sql_except(<<"disk I/O error">>)
                    ELSE IF isinstance(r.description, "NoneType")
                    THEN execute_sql_except(<<"'NoneType' object is not iterable">>)
                    ELSE execute_sql_success(r.description.v, r.rows)
         IN [raised |-> FALSE, msg |-> <<>>,
             columns |-> out.columns, results |-> out.results,
             opened |-> 1, closed |-> out.closed,
             db |-> r.after, executed |-> <<query>>]

\* execute_sql answering a statement without a result set with an empty success
execute_sql_no_result_set(query, reachable, d, fetchFault) ==
    IF ~reachable
    THEN [raised |-> TRUE, msg |-> <<"unable to open database file">>,
          columns |-> None, results |-> None, opened |-> 0, closed |-> 0,
          db |-> d, executed |-> <<>>]
    ELSE LET r == sqlite3_execute(query, d)
             out == IF r.raised THEN execute_sql_except(r.msg)
                    ELSE IF fetchFault THEN execute_sql_except(<<"disk I/O error">>)
                    ELSE IF isinstance(r.description, "NoneType")
                    THEN execute_sql_success(<<>>, r.rows)
                    ELSE execute_sql_success(r.description.v, r.rows)
         IN [raised |-> FALSE, msg |-> <<>>,
             columns |-> out.columns, results |-> out.results,
             opened |-> 1, closed |-> out.closed,
             db |-> r.after, executed |-> <<query>>]

\* sqlite3.connect (line 10) is outside the try: when the file cannot be
\* opened the exception leaves execute_sql and no connection exists.
\* fetchFault: cursor.fetchall() raises (an I/O error while reading rows).
execute_sql(query, reachable, d, fetchFault) ==
    IF ~reachable
    THEN [raised |-> TRUE, msg |-> <<"unable to open database file">>,
          columns |-> None, results |-> None, opened |-> 0, closed |-> 0,
          db |-> d, executed |-> <<>>]
    ELSE LET r == sqlite3_execute(query, d)
             out == IF r.raised THEN execute_sql_except(r.msg)
                    ELSE IF fetchFault THEN execute_sql_except(<<"disk I/O error">>)
                    ELSE IF isinstance(r.description, "NoneType")
                    THEN execute_sql_except(<<"'NoneType' object is not iterable">>)
                    ELSE execute_sql_success(r.description.v, r.rows)
         IN [raised |-> FALSE, msg |-> <<>>,
             columns |-> out.columns, results |-> out.results,
             opened |-> 1, closed |-> out.closed,
             db |-> r.after, executed |-> <<query>>]

---------------------------------------------------------------------------
(* rag/utils.py: load_and_format_schema, log_interaction *)

\* A JSON object is a dict whose value is the sequence of its members
\* <<key, value>> in document order; a JSON string is a str.
Obj(members) == [t |-> "dict", v |-> members]

HasKey(o, k) == \E i \in 1..Len(o.v) : o.v[i][1] = k

Get(o, k) == o.v[CHOOSE i \in 1..Len(o.v) : o.v[i][1] = k][2]

\* a call that ends in an exception of class exc
RaiseOf(exc, msg) == [raised |-> TRUE, value |-> None, msg |-> msg, exc |-> exc]

\* the file at schema_path: absent, not JSON, or a JSON document
SchemaFile(doc) == [exists |-> TRUE, parses |-> TRUE, doc |-> doc]

MissingFile == [exists |-> FALSE, parses |-> FALSE, doc |-> Obj(<<>>)]

MalformedFile == [exists |-> TRUE, parses |-> FALSE, doc |-> Obj(<<>>)]

\* schema/db_schema.json: {"tables": {table: {"columns": {column: description}}}}
SchemaDoc ==
    Obj(<< <<"tables",
             Obj(<< <<"customers",
                      Obj(<< <<"columns",
                               Obj(<< <<"id", Str(<<"Customer ID">>)>>,
                                      <<"name", Str(<<"Customer name">>)>> >>)>> >>)>> >>)>> >>)

RECURSIVE FormatColumns(_)
FormatColumns(cols) ==
    IF cols = <<>> THEN <<>>
    ELSE <<"  - ", Head(cols)[1], ": ">> \o Head(cols)[2].v \o <<"\n">>
         \o FormatColumns(Tail(cols))

\* the table loop without the blank line that ends a table
RECURSIVE FormatTables_no_blank(_)
FormatTables_no_blank(tables) ==
    IF tables = <<>> THEN <<>>
    ELSE <<"Table: ", Head(tables)[1], "\n">>
         \o FormatColumns(Get(Head(tables)[2], "columns").v)
         \o FormatTables_no_blank(Tail(tables))

RECURSIVE FormatTables(_)
FormatTables(tables) ==
    IF tables = <<>> THEN <<>>
    ELSE <<"Table: ", Head(tables)[1], "\n">>
         \o FormatColumns(Get(Head(tables)[2], "columns").v)
         \o <<"\n">> \o FormatTables(Tail(tables))

\* the loader answering an absent or unparsable file with an empty schema
load_and_format_schema_default(source) ==
    IF ~source.exists \/ ~source.parses
    THEN Ok(Str(<<>>))
    ELSE LET schema == source.doc
         IN IF ~HasKey(schema, "tables")
            THEN RaiseOf("KeyError", <<"'tables'">>)
            ELSE LET tables == Get(schema, "tables").v
                 IN IF \E i \in 1..Len(tables) : ~HasKey(tables[i][2], "columns")
                    THEN RaiseOf("KeyError", <<"'columns'">>)
                    ELSE Ok(Str(FormatTables(tables)))

\* the loader reading the tables from the top level when "tables" is absent
load_and_format_schema_lenient(source) ==
    IF ~source.exists
    THEN RaiseOf("FileNotFoundError", <<"No such file or directory: schema_path">>)
    ELSE IF ~source.parses
    THEN RaiseOf("JSONDecodeError", <<"Expecting value">>)
    ELSE LET schema == source.doc
             tables == IF HasKey(schema, "tables") THEN Get(schema, "tables").v
                       ELSE schema.v
         IN IF \E i \in 1..Len(tables) : ~HasKey(tables[i][2], "columns")
            THEN RaiseOf("KeyError", <<"'columns'">>)
            ELSE Ok(Str(FormatTables(tables)))

\* open (line 6) raises FileNotFoundError, json.load (line 7) JSONDecodeError,
\* schema["tables"] (line 10) and content["columns"] (line 12) KeyError
load_and_format_schema(source) ==
    IF ~source.exists
    THEN RaiseOf("FileNotFoundError", <<"No such file or directory: schema_path">>)
    ELSE IF ~source.parses
    THEN RaiseOf("JSONDecodeError", <<"Expecting value">>)
    ELSE LET schema == source.doc
         IN IF ~HasKey(schema, "tables")
            THEN RaiseOf("KeyError", <<"'tables'">>)
            ELSE LET tables == Get(schema, "tables").v
                 IN IF \E i \in 1..Len(tables) : ~HasKey(tables[i][2], "columns")
                    THEN RaiseOf("KeyError", <<"'columns'">>)
                    ELSE Ok(Str(FormatTables(tables)))

SchemaText == FormatTables(Get(SchemaDoc, "tables").v)

\* log_interaction without the record of the database result
log_interaction_no_result(user_query, sql_query, results, explanation) ==
    << [level |-> "INFO", tag |-> "USER QUESTION", v |-> Str(user_query)],
       [level |-> "INFO", tag |-> "SQL GENERATED", v |-> Str(sql_query)],
       [level |-> "INFO", tag |-> "LLM EXPLANATION", v |-> Str(explanation \o <<"\n">>)] >>

\* the four records of one interaction, in the order they are written
log_interaction(user_query, sql_query, results, explanation) ==
    << [level |-> "INFO", tag |-> "USER QUESTION", v |-> Str(user_query)],
       [level |-> "INFO", tag |-> "SQL GENERATED", v |-> Str(sql_query)],
       [level |-> "INFO", tag |-> "DB RESULT", v |-> results],
       [level |-> "INFO", tag |-> "LLM EXPLANATION", v |-> Str(explanation \o <<"\n">>)] >>

---------------------------------------------------------------------------
(* The language model.  A reply of ollama.chat is [raised, content, msg]. *)

Reply(content) == [raised |-> FALSE, content |-> content, msg |-> <<>>]

ChatError(model) ==
    [raised |-> TRUE, content |-> <<>>, msg |-> <<"ollama: model not available: ", model>>]

Request(model, prompt) == [model |-> model, role |-> "user", prompt |-> prompt]

---------------------------------------------------------------------------
(* rag/prompt_enhancer.py: enhance_question *)

\* enhance_question_fallback returning the question stripped, as the reply is
enhance_question_fallback_strip(user_question, e) ==
    [out |-> Ok(Str(strip(user_question))),
     logged |-> << [level |-> "ERROR", tag |-> "Error enhancing question", v |-> Str(e)] >>]

\* lines 54-56: the except branch logs the error and returns the question it was given
enhance_question_fallback(user_question, e) ==
    [out |-> Ok(Str(user_question)),
     logged |-> << [level |-> "ERROR", tag |-> "Error enhancing question", v |-> Str(e)] >>]

\* the reply's text with only its leading whitespace removed
enhance_question_reply_lstrip(user_question, content) ==
    LET enhanced == lstrip(content)
    IN [out |-> Ok(Str(enhanced)),
        logged |-> << [level |-> "INFO", tag |-> "Original Question", v |-> Str(user_question)],
                      [level |-> "INFO", tag |-> "Enhanced Question", v |-> Str(enhanced)] >>]

\* lines 46-53: the reply's text, stripped, is logged and returned
enhance_question_reply(user_question, content) ==
    LET enhanced == strip(content)
    IN [out |-> Ok(Str(enhanced)),
        logged |-> << [level |-> "INFO", tag |-> "Original Question", v |-> Str(user_question)],
                      [level |-> "INFO", tag |-> "Enhanced Question", v |-> Str(enhanced)] >>]

\* enhance_question with a second attempt after a failed model call
enhance_question_retry(user_question, c) ==
    LET request == Request("mistral", [template |-> "enhance", question |-> user_question])
        r == IF c.raised THEN enhance_question_fallback(user_question, c.msg)
             ELSE enhance_question_reply(user_question, c.content)
    IN [out |-> r.out,
        requests |-> IF c.raised THEN <<request, request>> ELSE <<request>>,
        logged |-> r.logged]

enhance_question(user_question, c) ==
    LET request == Request("mistral", [template |-> "enhance", question |-> user_question])
        r == IF c.raised THEN enhance_question_fallback(user_question, c.msg)
             ELSE enhance_question_reply(user_question, c.content)
    IN [out |-> r.out, requests |-> <<request>>, logged |-> r.logged]

---------------------------------------------------------------------------
(* rag/query_generator.py: generate_sql *)

\* generate_sql with the model call's error swallowed and an empty statement returned
generate_sql_swallow(schema_text, enhanced_question, c) ==
    LET request == Request("llama3", [template |-> "generate", schema |-> schema_text,
                                      question |-> enhanced_question])
    IN [out |-> IF c.raised THEN Ok(Str(<<>>)) ELSE Ok(Str(strip(c.content))),
        requests |-> <<request>>]

\* lines 53-57: no try around the model call; the reply's text is stripped
generate_sql(schema_text, enhanced_question, c) ==
    LET request == Request("llama3", [template |-> "generate", schema |-> schema_text,
                                      question |-> enhanced_question])
    IN [out |-> IF c.raised THEN Raise(c.msg) ELSE Ok(Str(strip(c.content))),
        requests |-> <<request>>]

---------------------------------------------------------------------------
(* rag/result_interpreter.py: interpret_result *)

DefaultMaxRows == 10

\* truncate with the slice one row too long
truncate_off_by_one(data, max_rows) ==
    IF Len(data) > max_rows THEN SliceTo(data, max_rows + 1) ELSE data

\* lines 5-6
truncate(data, max_rows) ==
    IF Len(data) > max_rows THEN SliceTo(data, max_rows) ELSE data

\* lines 8-10: one line per row, the pairs "column: value" of the row
result_text(data, columns) ==
    [r \in 1..Len(data) |-> [i \in 1..Len(columns) |-> <<columns[i], data[r][i]>>]]

\* row[i] for i in range(len(columns)) is out of range on a row shorter than columns
RowTooShort(data, columns) == \E r \in 1..Len(data) : Len(data[r]) < Len(columns)

\* interpret_result with a fallback text in place of the model's error
interpret_result_fallback(user_question, sql_query, data, columns, max_rows, c) ==
    LET shown == truncate(data, max_rows)
        request == Request("llama3", [template |-> "interpret",
                                      question |-> user_question,
                                      sql |-> sql_query,
                                      preview_count |-> Len(shown),
                                      result_text |-> result_text(shown, columns)])
    IN [out |-> IF c.raised THEN Ok(Str(<<"No explanation available.">>))
                ELSE Ok(Str(strip(c.content))),
        requests |-> <<request>>, data |-> data]

\* interpret_result cutting the caller's list itself down to max_rows
interpret_result_in_place(user_question, sql_query, data, columns, max_rows, c) ==
    LET shown == truncate(data, max_rows)
        request == Request("llama3", [template |-> "interpret",
                                      question |-> user_question,
                                      sql |-> sql_query,
                                      preview_count |-> Len(shown),
                                      result_text |-> result_text(shown, columns)])
    IN [out |-> IF c.raised THEN Raise(c.msg) ELSE Ok(Str(strip(c.content))),
        requests |-> <<request>>, data |-> shown]

\* `data` is the caller's list after the call: line 6 binds the local name to
\* a new, shorter list and leaves the list it was given as it is

interpret_result(user_question, sql_query, data, columns, max_rows, c) ==
    LET shown == truncate(data, max_rows)
    IN IF RowTooShort(shown, columns)
       THEN [out |-> Raise(<<"tuple index out of range">>), requests |-> <<>>,
             data |-> data]
       ELSE LET request ==
                    Request("llama3", [template |-> "interpret",
                                       question |-> user_question,
                                       sql |-> sql_query,
                                       preview_count |-> Len(shown),
                                       result_text |-> result_text(shown, columns)])
            IN [out |-> IF c.raised THEN Raise(c.msg) ELSE Ok(Str(strip(c.content))),
                requests |-> <<request>>, data |-> data]

---------------------------------------------------------------------------
(* evaluation/rag_evaluator.py: RAGEvaluator.run_pipeline_step *)

Dict(fields) == [t |-> "dict", v |-> fields]

\* step_error_return with the column list, not the error string, in the answer
step_error_return_generic(question, enhanced_question, sql_query, results) ==
    Dict([original_question |-> Str(question),
          enhanced_question |-> enhanced_question,
          sql_query |-> sql_query,
          execution_error |-> results,
          columns |-> None,
          results |-> None,
          final_answer |-> Str(<<"Error: ", "None">>)])

\* lines 78-87: the error exit
step_error_return(question, enhanced_question, sql_query, results) ==
    Dict([original_question |-> Str(question),
          enhanced_question |-> enhanced_question,
          sql_query |-> sql_query,
          execution_error |-> results,
          columns |-> None,
          results |-> None,
          final_answer |-> Str(<<"Error: ">> \o results.v)])

\* lines 92-100: the normal exit
step_success_return(question, enhanced_question, sql_query, columns, results, final_answer) ==
    Dict([original_question |-> Str(question),
          enhanced_question |-> enhanced_question,
          sql_query |-> sql_query,
          execution_error |-> None,
          columns |-> columns,
          results |-> results,
          final_answer |-> final_answer])

\* step_except_return with an empty statement in place of None
step_except_return_empty_sql(question, e) ==
    Dict([original_question |-> Str(question),
          enhanced_question |-> Str(question),
          sql_query |-> Str(<<>>),
          execution_error |-> Str(e),
          columns |-> None,
          results |-> None,
          final_answer |-> Str(<<"Pipeline Error: ">> \o e)])

\* lines 102-112: the handler of any exception raised in the try body
step_except_return(question, e) ==
    Dict([original_question |-> Str(question),
          enhanced_question |-> Str(question),
          sql_query |-> None,
          execution_error |-> Str(e),
          columns |-> None,
          results |-> None,
          final_answer |-> Str(<<"Pipeline Error: ">> \o e)])

\* a record written once whatever the number of handlers
emit_once(file, record, n) == Append(file, record)

\* a record handed to the "rag_evaluator" logger: each of its n handlers
\* (lines 55-59) appends it to logs/rag_evaluation.log
emit(file, record, n) == file \o [i \in 1..n |-> record]

\* line 103
step_except_log(question, e) ==
    [level |-> "ERROR", tag |-> "Pipeline error for question", question |-> question,
     v |-> Str(e)]

\* the test "not results or isinstance(results, str)"
is_error_result_falsy(results) ==
    IF isinstance(results, "str") THEN TRUE ELSE results.v = <<>>

\* lines 78 and rag_pipeline.py line 37: isinstance(results, str)
is_error_result(results) == isinstance(results, "str")

\* the arguments each stage is called with (rag_evaluator.py lines 73, 76, 90;
\* rag_pipeline.py lines 31, 35, 47)
generate_args(schema_text, l) == <<Str(schema_text), l.enhanced_question>>

\* execute_args with a LIMIT clause appended to the generated statement
execute_args_rewritten(l) == <<Str(l.sql_query.v \o <<" LIMIT 5">>)>>

execute_args(l) == <<l.sql_query>>

interpret_args(l) == <<l.enhanced_question, l.sql_query, l.results, l.columns>>

---------------------------------------------------------------------------
(* rag/rag_pipeline.py: main *)

\* print(...) of a value; the fixed progress banners are left out
Printed(label, v) == [label |-> label, v |-> v]

\* lines 41-44: the column list, then one line per row
PrintedRows(columns, results) ==
    <<Printed("columns", columns)>>
    \o [i \in 1..Len(results.v) |-> Printed("row", List(results.v[i]))]

---------------------------------------------------------------------------
(* The environment *)

Questions == { <<>>, <<" ", "Give I all customer name">> }

EnhancerReplies(q) ==
    { ChatError("mistral"), Reply(q), Reply(<<"Give me all customer names", "\n">>) }

SqlTexts == { SelNames, SelAll, SelNone, SelMissing, InvalidSql, DeleteSql, DropSql }

GeneratorReplies ==
    { ChatError("llama3"), Reply(<<>>), Reply(<<" ", SelNames, "\n">>) }
    \cup { Reply(<<q>>) : q \in SqlTexts }

InterpreterReplies == { ChatError("llama3"), Reply(<<"Here are the customers.", "\n">>) }

---------------------------------------------------------------------------
(* The pipeline as a state machine: one step per stage call, each step     *)
(* running the orchestrator up to its next stage call or its exit.         *)

\* cursor.fetchall() is reached, and so can fail, only after cursor.execute()
\* returned.  reachable: sqlite3.connect can open the database file.
ExecEnvs(query, d) ==
    { [reachable |-> FALSE, fetchFault |-> FALSE],
      [reachable |-> TRUE, fetchFault |-> FALSE] }
    \cup { [reachable |-> TRUE, fetchFault |-> f] :
             f \in IF sqlite3_execute(query, d).raised THEN {FALSE} ELSE BOOLEAN }

\* main's call of log_interaction (rag_pipeline.py line 50), which returns None
log_interaction_call(raw_question, sql_query, results, explanation) ==
    [fn |-> "log_interaction", args |-> <<Str(raw_question), sql_query, results, explanation>>,
     env |-> <<>>, out |-> Ok(None)]

InputPrompt == <<"Ask a question about the database: ">>

\* the schema file as main may find it
SchemaSources == {SchemaFile(SchemaDoc), MissingFile, MalformedFile}

NoLocals == [enhanced_question |-> None, sql_query |-> None,
             columns |-> None, results |-> None]

NoArg == [data |-> <<>>, columns |-> <<>>, max_rows |-> 0]

Init ==
    /\ pc = "idle"
    /\ run = [entry |-> "none", question |-> <<>>,
              schema_source |-> SchemaFile(SchemaDoc),
              schema |-> load_and_format_schema(SchemaFile(SchemaDoc))]
    /\ loc = NoLocals
    /\ ret = None
    /\ stdout = <<>>
    /\ escaped = NoException
    /\ calls = <<>>
    /\ chats = <<>>
    /\ log = <<>>
    /\ evalLog = <<>>
    /\ db = InitDB
    /\ openConns = 0
    /\ nRuns = 0
    /\ handlers = 1
    /\ arg = NoArg

\* run_pipeline_step(question) is entered (rag_evaluator.py line 63)
StepStart(q) ==
    /\ pc \in {"idle", "done"}
    /\ nRuns < MaxRuns
    /\ run' = [entry |-> "step", question |-> q,
               schema_source |-> SchemaFile(SchemaDoc),
               schema |-> load_and_format_schema(SchemaFile(SchemaDoc))]
    /\ loc' = NoLocals
    /\ ret' = None
    /\ stdout' = <<>>
    /\ escaped' = NoException
    /\ calls' = <<>>
    /\ chats' = <<>>
    /\ pc' = "enhance"
    /\ nRuns' = nRuns + 1
    /\ UNCHANGED <<handlers, log, evalLog, db, openConns, arg>>

\* main: load_and_format_schema (line 24) comes before input (line 25); an
\* exception of the loader leaves main, which has no handler.
MainStart(q, source) ==
    /\ pc \in {"idle", "done"}
    /\ nRuns < MaxRuns
    /\ LET r == load_and_format_schema(source)
       IN IF r.raised
          THEN /\ run' = [entry |-> "main", question |-> <<>>,
                          schema_source |-> source, schema |-> r]
               /\ stdout' = <<>>
               /\ escaped' = [raised |-> TRUE, msg |-> r.msg]
               /\ pc' = "done"
          ELSE /\ run' = [entry |-> "main", question |-> q,
                          schema_source |-> source, schema |-> r]
               /\ stdout' = <<Printed("input", Str(InputPrompt))>>
               /\ escaped' = NoException
               /\ pc' = "enhance"
    /\ loc' = NoLocals
    /\ ret' = None
    /\ calls' = <<>>
    /\ chats' = <<>>
    /\ nRuns' = nRuns + 1
    /\ UNCHANGED <<handlers, log, evalLog, db, openConns, arg>>

\* An exception leaves the try body of run_pipeline_step (its handler, lines
\* 102-112, logs it and returns) or the body of main (which has no handler).
Unwound(e) ==
    /\ pc' = "done"
    /\ IF run.entry = "step"
       THEN /\ ret' = step_except_return(run.question, e)
            /\ evalLog' = emit(evalLog, step_except_log(run.question, e), handlers)
            /\ escaped' = escaped
       ELSE /\ escaped' = [raised |-> TRUE, msg |-> e]
            /\ ret' = ret
            /\ evalLog' = evalLog

Enhance ==
    /\ pc = "enhance"
    /\ \E c \in EnhancerReplies(run.question) :
          LET r == enhance_question(run.question, c)
          IN /\ calls' = Append(calls, [fn |-> "enhance_question",
                                        args |-> <<Str(run.question)>>,
                                        env |-> c, out |-> r.out])
             /\ chats' = chats \o r.requests
             /\ log' = IF run.entry = "main" THEN log \o r.logged ELSE log
             /\ loc' = [loc EXCEPT !.enhanced_question = r.out.value]
    /\ pc' = "generate"
    /\ UNCHANGED <<handlers, run, ret, stdout, escaped, evalLog, db, openConns, nRuns, arg>>

Generate ==
    /\ pc = "generate"
    /\ \E c \in GeneratorReplies :
          LET a == generate_args(run.schema.value.v, loc)
              r == generate_sql(a[1].v, a[2].v, c)
          IN /\ calls' = Append(calls, [fn |-> "generate_sql", args |-> a,
                                        env |-> c, out |-> r.out])
             /\ chats' = chats \o r.requests
             /\ IF r.out.raised
                THEN /\ Unwound(r.out.msg)
                     /\ UNCHANGED <<loc, stdout>>
                ELSE /\ pc' = "execute"
                     /\ loc' = [loc EXCEPT !.sql_query = r.out.value]
                     /\ stdout' = IF run.entry = "main"
                                  THEN Append(stdout, Printed("SQL Query", r.out.value))
                                  ELSE stdout
                     /\ UNCHANGED <<ret, evalLog, escaped>>
    /\ UNCHANGED <<handlers, run, log, db, openConns, nRuns, arg>>

Execute ==
    /\ pc = "execute"
    /\ \E e \in ExecEnvs(execute_args(loc)[1].v, db) :
          LET a == execute_args(loc)
              r == execute_sql(a[1].v, e.reachable, db, e.fetchFault)
          IN /\ calls' = Append(calls,
                    [fn |-> "execute_sql", args |-> a, env |-> e,
                     executed |-> r.executed,
                     out |-> IF r.raised THEN Raise(r.msg)
                             ELSE Ok([t |-> "tuple", v |-> <<r.columns, r.results>>])])
             /\ openConns' = openConns + r.opened - r.closed
             /\ db' = r.db
             /\ IF r.raised
                THEN /\ Unwound(r.msg)
                     /\ UNCHANGED <<loc, stdout>>
                ELSE /\ loc' = [loc EXCEPT !.columns = r.columns, !.results = r.results]
                     /\ UNCHANGED <<evalLog, escaped>>
                     /\ IF is_error_result(r.results)
                        THEN /\ pc' = "done"
                             /\ ret' = IF run.entry = "step"
                                       THEN step_error_return(run.question,
                                                loc.enhanced_question, loc.sql_query, r.results)
                                       ELSE ret
                             /\ stdout' = IF run.entry = "main"
                                          THEN Append(stdout, Printed("", r.results))
                                          ELSE stdout
                        ELSE /\ pc' = "interpret"
                             /\ ret' = ret
                             /\ stdout' = IF run.entry = "main"
                                          THEN stdout \o PrintedRows(r.columns, r.results)
                                          ELSE stdout
    /\ UNCHANGED <<handlers, run, chats, log, nRuns, arg>>

Interpret ==
    /\ pc = "interpret"
    /\ \E c \in InterpreterReplies :
          LET a == interpret_args(loc)
              r == interpret_result(a[1].v, a[2].v, a[3].v, a[4].v, DefaultMaxRows, c)
              call == [fn |-> "interpret_result", args |-> a, env |-> c, out |-> r.out]
              results == List(r.data)
          IN /\ chats' = chats \o r.requests
             /\ loc' = [loc EXCEPT !.results = results]
             /\ IF r.out.raised
                THEN /\ Unwound(r.out.msg)
                     /\ calls' = Append(calls, call)
                     /\ UNCHANGED <<stdout, log>>
                ELSE /\ pc' = "done"
                     /\ calls' = IF run.entry = "main"
                                 THEN calls \o <<call, log_interaction_call(run.question,
                                                      loc.sql_query, results, r.out.value)>>
                                 ELSE Append(calls, call)
                     /\ UNCHANGED <<evalLog, escaped>>
                     /\ ret' = IF run.entry = "step"
                               THEN step_success_return(run.question, loc.enhanced_question,
                                        loc.sql_query, loc.columns, results, r.out.value)
                               ELSE ret
                     /\ stdout' = IF run.entry = "main"
                                  THEN Append(stdout, Printed("Explanation", r.out.value))
                                  ELSE stdout
                     /\ log' = IF run.entry = "main"
                               THEN log \o log_interaction(run.question, loc.sql_query.v,
                                                           results, r.out.value.v)
                               ELSE log
    /\ UNCHANGED <<handlers, run, db, openConns, nRuns, arg>>

Next ==
    \/ \E q \in Questions : StepStart(q)
    \/ \E q \in Questions : \E source \in SchemaSources : MainStart(q, source)
    \/ Enhance
    \/ Generate
    \/ Execute
    \/ Interpret

Spec == Init /\ [][Next]_vars


---------------------------------------------------------------------------
(* interpret_result called directly, as tests/test_pipeline.py does (lines *)
(* 217-237), on any aligned result set of at most MaxData rows and any     *)
(* max_rows from -1 to MaxN.                                               *)

DirectColumns == <<"id", "name">>

DirectRows == { <<"1", "Ann">>, <<"2", "Bob">> }

DirectData == UNION { [1..n -> DirectRows] : n \in 0..MaxData }

DirectQuestion == <<"List all customers">>

InitInterp ==
    /\ pc = "call"
    /\ arg \in [data : DirectData, columns : {DirectColumns}, max_rows : -1..MaxN]
    /\ run = [entry |-> "direct", question |-> DirectQuestion,
              schema_source |-> SchemaFile(SchemaDoc),
              schema |-> load_and_format_schema(SchemaFile(SchemaDoc))]
    /\ loc = NoLocals
    /\ ret = None
    /\ stdout = <<>>
    /\ escaped = NoException
    /\ calls = <<>>
    /\ chats = <<>>
    /\ log = <<>>
    /\ evalLog = <<>>
    /\ db = InitDB
    /\ openConns = 0
    /\ nRuns = 0
    /\ handlers = 1

InterpretDirect ==
    /\ pc = "call"
    /\ \E c \in InterpreterReplies :
          LET r == interpret_result(run.question, <<SelAll>>, arg.data, arg.columns,
                                    arg.max_rows, c)
          IN /\ calls' = Append(calls,
                    [fn |-> "interpret_result",
                     args |-> <<Str(run.question), Str(<<SelAll>>), List(arg.data),
                                List(arg.columns)>>,
                     env |-> c, out |-> r.out])
             /\ chats' = chats \o r.requests
             /\ escaped' = [raised |-> r.out.raised, msg |-> r.out.msg]
             /\ ret' = r.out.value
             /\ arg' = [arg EXCEPT !.data = r.data]
    /\ pc' = "returned"
    /\ UNCHANGED <<handlers, run, loc, stdout, log, evalLog, db, openConns, nRuns>>

NextInterp == InterpretDirect

InterpSpec == InitInterp /\ [][NextInterp]_vars

---------------------------------------------------------------------------
(* load_and_format_schema called on its own, over schema files of three    *)
(* layouts: with both the "tables" and the "columns" level, with "tables"  *)
(* only, and keyed by table name at the top.                                *)

MaxTables == 2
MaxCols == 2

TableNames == {"test_customers", "test_orders"}

ColumnNames == {"id", "name", "email"}

ColumnDescription(column) ==
    CASE column = "id" -> "Customer ID"
      [] column = "name" -> "Customer's \"full\" name"
      [] column = "email" -> "E-mail: address & domain"

DistinctSeqs(S, n) ==
    { q \in UNION { [1..k -> S] : k \in 0..n } :
        \A i \in 1..Len(q) : \A j \in 1..Len(q) : i # j => q[i] # q[j] }

\* the tables of a document: name and column names, in document order
TableLists ==
    { ts \in UNION { [1..k -> [name : TableNames, cols : DistinctSeqs(ColumnNames, MaxCols)]]
                       : k \in 0..MaxTables } :
        \A i \in 1..Len(ts) : \A j \in 1..Len(ts) : i # j => ts[i].name # ts[j].name }

ColumnsObj(cols) ==
    Obj([i \in 1..Len(cols) |-> <<cols[i], Str(<<ColumnDescription(cols[i])>>)>>])

WrappedDoc(ts) ==
    Obj(<< <<"tables",
             Obj([i \in 1..Len(ts) |->
                    <<ts[i].name, Obj(<< <<"columns", ColumnsObj(ts[i].cols)>> >>)>>])>> >>)

TablesOnlyDoc(ts) ==
    Obj(<< <<"tables",
             Obj([i \in 1..Len(ts) |-> <<ts[i].name, ColumnsObj(ts[i].cols)>>])>> >>)

FlatDoc(ts) ==
    Obj([i \in 1..Len(ts) |-> <<ts[i].name, ColumnsObj(ts[i].cols)>>])

DirectSources ==
    {MissingFile, MalformedFile}
    \cup { SchemaFile(WrappedDoc(ts)) : ts \in TableLists }
    \cup { SchemaFile(TablesOnlyDoc(ts)) : ts \in TableLists }
    \cup { SchemaFile(FlatDoc(ts)) : ts \in TableLists }

InitSchema ==
    /\ pc = "call"
    /\ arg \in DirectSources
    /\ run = [entry |-> "direct", question |-> <<>>,
              schema_source |-> SchemaFile(SchemaDoc),
              schema |-> load_and_format_schema(SchemaFile(SchemaDoc))]
    /\ loc = NoLocals
    /\ ret = None
    /\ stdout = <<>>
    /\ escaped = NoException
    /\ calls = <<>>
    /\ chats = <<>>
    /\ log = <<>>
    /\ evalLog = <<>>
    /\ db = InitDB
    /\ openConns = 0
    /\ nRuns = 0
    /\ handlers = 1

LoadSchemaDirect ==
    /\ pc = "call"
    /\ LET r == load_and_format_schema(arg)
       IN /\ calls' = Append(calls, [fn |-> "load_and_format_schema",
                                     args |-> <<arg>>, out |-> r])
          /\ escaped' = [raised |-> r.raised, msg |-> r.msg]
          /\ ret' = r.value
    /\ pc' = "returned"
    /\ UNCHANGED <<handlers, run, loc, stdout, chats, log, evalLog, db, openConns, nRuns, arg>>

NextSchema == LoadSchemaDirect

SchemaSpec == InitSchema /\ [][NextSchema]_vars

---------------------------------------------------------------------------
(* enhance_question called on its own with a stubbed model.                *)

MaxLen == 3

QuestionTokens == {" ", "\n", "show", "customers"}

DirectQuestions == UNION { [1..k -> QuestionTokens] : k \in 0..MaxLen }

\* the stub fails, echoes the question, or answers with a fixed text
StubReplies(q) ==
    { ChatError("mistral"), Reply(q), Reply(<<"\n", "Show all customers", " ">>) }

InitEnhance ==
    /\ pc = "call"
    /\ arg \in DirectQuestions
    /\ run = [entry |-> "direct", question |-> <<>>,
              schema_source |-> SchemaFile(SchemaDoc),
              schema |-> load_and_format_schema(SchemaFile(SchemaDoc))]
    /\ loc = NoLocals
    /\ ret = None
    /\ stdout = <<>>
    /\ escaped = NoException
    /\ calls = <<>>
    /\ chats = <<>>
    /\ log = <<>>
    /\ evalLog = <<>>
    /\ db = InitDB
    /\ openConns = 0
    /\ nRuns = 0
    /\ handlers = 1

EnhanceDirect ==
    /\ pc = "call"
    /\ \E c \in StubReplies(arg) :
          LET r == enhance_question(arg, c)
          IN /\ calls' = Append(calls, [fn |-> "enhance_question",
                                        args |-> <<Str(arg)>>,
                                        env |-> c, out |-> r.out])
             /\ chats' = chats \o r.requests
             /\ log' = log \o r.logged
             /\ escaped' = [raised |-> r.out.raised, msg |-> r.out.msg]
             /\ ret' = r.out.value
    /\ pc' = "returned"
    /\ UNCHANGED <<handlers, run, loc, stdout, evalLog, db, openConns, nRuns, arg>>

NextEnhance == EnhanceDirect

EnhanceSpec == InitEnhance /\ [][NextEnhance]_vars

---------------------------------------------------------------------------
(* Several runs of run_pipeline_step interleaved.  pc, run, loc, ret, calls *)
(* and chats hold one value per run; the database file, the count of open   *)
(* connections and the evaluator's log are shared.  execute_sql takes two   *)
(* steps, up to fetchall and from conn.close() on, so that a connection of  *)
(* one run is open while another run executes.                              *)

NumRuns == 2

RunIds == 1..NumRuns

RunEnhancerReplies(q) == { ChatError("mistral"), Reply(q) }

RunGeneratorReplies ==
    { ChatError("llama3"), Reply(<<SelNames>>), Reply(<<DeleteSql>>), Reply(<<DropSql>>) }

IsWrite(query) == strip(query) \in { <<DeleteSql>>, <<DropSql>> }

\* run r has executed a DELETE in a transaction that its connection still holds
HoldsWriteLock(r) ==
    /\ pc[r] = "close"
    /\ calls[r][Len(calls[r])].txn

\* sqlite3 gives up a write that waits for another connection's transaction
DatabaseLocked == execute_sql_except(<<"database is locked">>)

InitRuns ==
    /\ pc = [r \in RunIds |-> "enhance"]
    /\ run \in [RunIds -> { [entry |-> "step", question |-> q,
                             schema_source |-> SchemaFile(SchemaDoc),
                             schema |-> load_and_format_schema(SchemaFile(SchemaDoc))]
                            : q \in Questions }]
    /\ loc = [r \in RunIds |-> NoLocals]
    /\ ret = [r \in RunIds |-> None]
    /\ calls = [r \in RunIds |-> <<>>]
    /\ chats = [r \in RunIds |-> <<>>]
    /\ stdout = <<>>
    /\ escaped = NoException
    /\ log = <<>>
    /\ evalLog = <<>>
    /\ db = InitDB
    /\ openConns = 0
    /\ nRuns = 0
    /\ handlers = 1
    /\ arg = NoArg

\* the handler of run_pipeline_step (lines 102-112) in run r
RunUnwound(r, e) ==
    /\ pc' = [pc EXCEPT ![r] = "done"]
    /\ ret' = [ret EXCEPT ![r] = step_except_return(run[r].question, e)]
    /\ evalLog' = emit(evalLog, step_except_log(run[r].question, e), handlers)

RunEnhance(r) ==
    /\ pc[r] = "enhance"
    /\ \E c \in RunEnhancerReplies(run[r].question) :
          LET o == enhance_question(run[r].question, c)
          IN /\ calls' = [calls EXCEPT ![r] =
                            Append(@, [fn |-> "enhance_question",
                                       args |-> <<Str(run[r].question)>>,
                                       env |-> c, out |-> o.out])]
             /\ chats' = [chats EXCEPT ![r] = @ \o o.requests]
             /\ loc' = [loc EXCEPT ![r].enhanced_question = o.out.value]
    /\ pc' = [pc EXCEPT ![r] = "generate"]
    /\ UNCHANGED <<handlers, run, ret, stdout, escaped, log, evalLog, db, openConns, nRuns, arg>>

RunGenerate(r) ==
    /\ pc[r] = "generate"
    /\ \E c \in RunGeneratorReplies :
          LET a == generate_args(run[r].schema.value.v, loc[r])
              o == generate_sql(a[1].v, a[2].v, c)
          IN /\ calls' = [calls EXCEPT ![r] =
                            Append(@, [fn |-> "generate_sql", args |-> a,
                                       env |-> c, out |-> o.out])]
             /\ chats' = [chats EXCEPT ![r] = @ \o o.requests]
             /\ IF o.out.raised
                THEN /\ RunUnwound(r, o.out.msg)
                     /\ loc' = loc
                ELSE /\ pc' = [pc EXCEPT ![r] = "execute"]
                     /\ loc' = [loc EXCEPT ![r].sql_query = o.out.value]
                     /\ UNCHANGED <<ret, evalLog>>
    /\ UNCHANGED <<handlers, run, stdout, escaped, log, db, openConns, nRuns, arg>>

\* execute_sql lines 10-15 in run r: connect, execute, fetchall, description
RunExecute(r) ==
    /\ pc[r] = "execute"
    /\ LET a == execute_args(loc[r])
           busy == IsWrite(a[1].v) /\ \E r2 \in RunIds \ {r} : HoldsWriteLock(r2)
           o == execute_sql(a[1].v, TRUE, db, FALSE)
           columns == IF busy THEN DatabaseLocked.columns ELSE o.columns
           results == IF busy THEN DatabaseLocked.results ELSE o.results
       IN /\ calls' = [calls EXCEPT ![r] =
                         Append(@, [fn |-> "execute_sql", args |-> a,
                                    env |-> [reachable |-> TRUE, fetchFault |-> FALSE,
                                             busy |-> busy],
                                    executed |-> o.executed,
                                    txn |-> ~busy /\ db.exists
                                            /\ strip(a[1].v) = <<DeleteSql>>,
                                    closed |-> IF busy THEN DatabaseLocked.closed
                                               ELSE o.closed,
                                    out |-> Ok([t |-> "tuple", v |-> <<columns, results>>])])]
          /\ db' = IF busy THEN db ELSE o.db
          /\ openConns' = openConns + o.opened
          /\ loc' = [loc EXCEPT ![r].columns = columns, ![r].results = results]
    /\ pc' = [pc EXCEPT ![r] = "close"]
    /\ UNCHANGED <<handlers, run, ret, stdout, escaped, chats, log, evalLog, nRuns, arg>>

\* execute_sql from conn.close() on (lines 16-17, 19-20) and the test of its
\* result in run_pipeline_step (lines 78-87)
RunClose(r) ==
    /\ pc[r] = "close"
    /\ openConns' = openConns - calls[r][Len(calls[r])].closed
    /\ IF is_error_result(loc[r].results)
       THEN /\ pc' = [pc EXCEPT ![r] = "done"]
            /\ ret' = [ret EXCEPT ![r] =
                          step_error_return(run[r].question, loc[r].enhanced_question,
                                            loc[r].sql_query, loc[r].results)]
       ELSE /\ pc' = [pc EXCEPT ![r] = "interpret"]
            /\ ret' = ret
    /\ UNCHANGED <<handlers, run, loc, stdout, escaped, calls, chats, log, evalLog, db, nRuns, arg>>

RunInterpret(r) ==
    /\ pc[r] = "interpret"
    /\ \E c \in InterpreterReplies :
          LET a == interpret_args(loc[r])
              o == interpret_result(a[1].v, a[2].v, a[3].v, a[4].v, DefaultMaxRows, c)
          IN /\ calls' = [calls EXCEPT ![r] =
                            Append(@, [fn |-> "interpret_result", args |-> a,
                                       env |-> c, out |-> o.out])]
             /\ chats' = [chats EXCEPT ![r] = @ \o o.requests]
             /\ loc' = [loc EXCEPT ![r].results = List(o.data)]
             /\ IF o.out.raised
                THEN RunUnwound(r, o.out.msg)
                ELSE /\ pc' = [pc EXCEPT ![r] = "done"]
                     /\ ret' = [ret EXCEPT ![r] =
                                   step_success_return(run[r].question,
                                       loc[r].enhanced_question, loc[r].sql_query,
                                       loc[r].columns, List(o.data), o.out.value)]
                     /\ evalLog' = evalLog
    /\ UNCHANGED <<handlers, run, stdout, escaped, log, db, openConns, nRuns, arg>>

NextRuns ==
    \/ \E r \in RunIds : RunEnhance(r)
    \/ \E r \in RunIds : RunGenerate(r)
    \/ \E r \in RunIds : RunExecute(r)
    \/ \E r \in RunIds : RunClose(r)
    \/ \E r \in RunIds : RunInterpret(r)

ConcSpec == InitRuns /\ [][NextRuns]_vars

---------------------------------------------------------------------------
(* evaluation/rag_evaluator.py: the evaluator as tests/test_evaluator.py   *)
(* and evaluate_pipeline use it.  pc is the pass evaluate_pipeline is in,  *)
(* loc its locals, arg its list of test cases, calls the calls made on and *)
(* by the evaluator, ret the mapping evaluate_pipeline returns.            *)

MaxEvaluators == 2
MaxCases == 2

\* the methods of class RAGEvaluator (lines 37-315)
RAGEvaluatorMethods ==
    { "__init__", "_setup_logger", "run_pipeline_step", "prepare_ragas_dataset",
      "evaluate_sql_correctness", "_check_sql_semantic_similarity", "evaluate_pipeline",
      "_evaluate_components", "save_results", "_save_summary" }

\* evaluator.<name>: the attribute lookup that precedes a method call
getattr(name) ==
    IF name \in RAGEvaluatorMethods THEN Ok(Str(<<name>>))
    ELSE RaiseOf("AttributeError",
                 <<"'RAGEvaluator' object has no attribute '", name, "'">>)

\* what a call of run_pipeline_step leaves behind: the mapping it returns,
\* the records it logged, the database
StepOutcome(value, logged, d) == [ret |-> value, log |-> logged, db |-> d]

\* lines 102-112: the exception is logged through the n handlers and answered
step_raised(question, msg, d, n) ==
    StepOutcome(step_except_return(question, msg),
                emit(<<>>, step_except_log(question, msg), n), d)

\* lines 92-100, given the outcome of interpret_result (line 90)
step_interpreted(question, l, int, d, n) ==
    IF int.out.raised THEN step_raised(question, int.out.msg, d, n)
    ELSE StepOutcome(step_success_return(question, l.enhanced_question, l.sql_query,
                                         l.columns, List(int.data), int.out.value),
                     <<>>, d)

\* line 90
step_interpret(question, l, e, d, n) ==
    step_interpreted(question, l,
                     interpret_result(interpret_args(l)[1].v, interpret_args(l)[2].v,
                                      interpret_args(l)[3].v, interpret_args(l)[4].v,
                                      DefaultMaxRows, e.interp),
                     d, n)

\* lines 76-87, given the outcome of execute_sql (line 75)
step_executed(question, l, ex, e, n) ==
    IF ex.raised THEN step_raised(question, ex.msg, ex.db, n)
    ELSE IF is_error_result(ex.results)
    THEN StepOutcome(step_error_return(question, l.enhanced_question, l.sql_query,
                                       ex.results),
                     <<>>, ex.db)
    ELSE step_interpret(question, [l EXCEPT !.columns = ex.columns,
                                            !.results = ex.results], e, ex.db, n)

\* line 75
step_execute(question, l, e, d, n) ==
    step_executed(question, l,
                  execute_sql(execute_args(l)[1].v, e.exec.reachable, d, e.exec.fetchFault),
                  e, n)

\* line 72 and its outcome
step_generated(question, l, gen, e, d, n) ==
    IF gen.out.raised THEN step_raised(question, gen.out.msg, d, n)
    ELSE step_execute(question, [l EXCEPT !.sql_query = gen.out.value], e, d, n)

step_generate(question, schema_text, l, e, d, n) ==
    step_generated(question, l,
                   generate_sql(generate_args(schema_text, l)[1].v,
                                generate_args(schema_text, l)[2].v, e.gen),
                   e, d, n)

\* run_pipeline_step (lines 63-112) as one call: the four stages on the
\* replies e.enh, e.gen, e.interp and the database state e.exec, d
run_pipeline_step(question, schema_text, e, d, n) ==
    step_generate(question, schema_text,
                  [NoLocals EXCEPT !.enhanced_question =
                                       enhance_question(question, e.enh).out.value],
                  e, d, n)

TestCase(i) ==
    IF i % 2 = 1
    THEN [question |-> <<"Give I all customer name">>,
          expected_answer |-> <<"The customers are listed.">>]
    ELSE [question |-> <<>>, expected_answer |-> <<"Please provide a valid question">>]

TestCases(n) == [i \in 1..n |-> TestCase(i)]

\* the replies and the database state one run of the pipeline meets
EvalRunEnvs(q) ==
    { [enh |-> Reply(q), gen |-> g,
       exec |-> [reachable |-> TRUE, fetchFault |-> FALSE],
       interp |-> Reply(<<"Here are the customers.">>)]
      : g \in { Reply(<<SelNames>>), ChatError("llama3") } }

ComponentReplies(q) == { Reply(q), Reply(<<"Give me all customer names">>) }

\* a quotient of two counts, as Python's true division gives it
Float(num, den) == [t |-> "float", v |-> <<num, den>>]

Truthy(x) == IF isinstance(x, "NoneType") THEN FALSE ELSE x.v # <<>>

\* lines 132-136: the SQL and the first five rows, when there are any
context_info(pipeline_output) ==
    (IF Truthy(pipeline_output.v.sql_query)
     THEN <<[label |-> "SQL Query", v |-> pipeline_output.v.sql_query]>> ELSE <<>>)
    \o (IF Truthy(pipeline_output.v.results)
        THEN <<[label |-> "Database Results",
                v |-> List(SliceTo(pipeline_output.v.results.v, 5))]>>
        ELSE <<>>)

\* case_result reporting the expected answer as the generated one
case_result_expected(i, test_case, pipeline_output) ==
    [test_case_id |-> i,
     question |-> test_case.question,
     expected_answer |-> test_case.expected_answer,
     generated_answer |-> Str(test_case.expected_answer),
     sql_query |-> pipeline_output.v.sql_query,
     execution_success |-> isinstance(pipeline_output.v.execution_error, "NoneType"),
     error |-> pipeline_output.v.execution_error]

\* lines 236-244
case_result(i, test_case, pipeline_output) ==
    [test_case_id |-> i,
     question |-> test_case.question,
     expected_answer |-> test_case.expected_answer,
     generated_answer |-> pipeline_output.v.final_answer,
     sql_query |-> pipeline_output.v.sql_query,
     execution_success |-> isinstance(pipeline_output.v.execution_error, "NoneType"),
     error |-> pipeline_output.v.execution_error]

EvalLocals ==
    [i |-> 0, dataset |-> <<>>, ragas_scores |-> <<>>, execution_successful |-> 0,
     sql_metrics |-> None, grammar_improvements |-> 0, component_metrics |-> None,
     detailed_results |-> <<>>]

EvalMessage(text) == [level |-> "INFO", tag |-> text, question |-> <<>>, v |-> None]

InitEval ==
    /\ pc = "idle"
    /\ run = [entry |-> "evaluator", question |-> <<>>,
              schema_source |-> SchemaFile(SchemaDoc),
              schema |-> load_and_format_schema(SchemaFile(SchemaDoc))]
    /\ loc = EvalLocals
    /\ ret = None
    /\ stdout = <<>>
    /\ escaped = NoException
    /\ calls = <<>>
    /\ chats = <<>>
    /\ log = <<>>
    /\ evalLog = <<>>
    /\ db = InitDB
    /\ openConns = 0
    /\ nRuns = 0
    /\ arg = <<>>
    /\ handlers = 0

Started == \E k \in 1..Len(calls) : calls[k].fn = "evaluate_pipeline"

\* RAGEvaluator() (lines 37-51, test_evaluator.py line 8)
Construct ==
    /\ pc = "idle"
    /\ ~Started
    /\ handlers < MaxEvaluators
    /\ handlers' = handlers + 1
    /\ calls' = Append(calls, [fn |-> "RAGEvaluator", args |-> <<>>, env |-> <<>>,
                               by |-> "test", out |-> Ok(None)])
    /\ UNCHANGED <<pc, run, loc, ret, stdout, escaped, chats, log, evalLog, db,
                   openConns, nRuns, arg>>

\* self.evaluator.run_evaluation() (test_evaluator.py lines 12, 17, 22)
RunEvaluation ==
    /\ pc = "idle"
    /\ ~Started
    /\ handlers >= 1
    /\ \A k \in 1..Len(calls) : calls[k].fn # "run_evaluation"
    /\ LET r == getattr("run_evaluation")
       IN /\ calls' = Append(calls, [fn |-> "run_evaluation", args |-> <<>>, env |-> <<>>,
                                     by |-> "test", out |-> r])
          /\ escaped' = [raised |-> r.raised, msg |-> r.msg]
    /\ UNCHANGED <<pc, run, loc, ret, stdout, chats, log, evalLog, db, openConns,
                   nRuns, arg, handlers>>

\* evaluate_pipeline line 201
EvaluateStart(n) ==
    /\ pc = "idle"
    /\ ~Started
    /\ handlers >= 1
    /\ arg' = TestCases(n)
    /\ calls' = Append(calls, [fn |-> "evaluate_pipeline", args |-> <<TestCases(n)>>,
                               env |-> <<>>, by |-> "test", out |-> Ok(None)])
    /\ evalLog' = emit(evalLog, EvalMessage("Starting evaluation"), handlers)
    /\ loc' = EvalLocals
    /\ escaped' = NoException
    /\ pc' = "prepare_ragas_dataset"
    /\ UNCHANGED <<run, ret, stdout, chats, log, db, openConns, nRuns, handlers>>

\* one call of run_pipeline_step made by pass `by` on test case loc.i + 1
RunRecord(q, by, e, r) ==
    [call |-> [fn |-> "run_pipeline_step", args |-> <<Str(q)>>, env |-> e,
               by |-> by, out |-> Ok(r.ret)],
     ret |-> r.ret, log |-> r.log, db |-> r.db]

PipelineRun(by, e) ==
    RunRecord(arg[loc.i + 1].question, by, e,
              run_pipeline_step(arg[loc.i + 1].question, run.schema.value.v, e, db,
                                handlers))

\* what every such call leaves in the history, the log and the database
Ran(r) ==
    /\ calls' = Append(calls, r.call)
    /\ evalLog' = evalLog \o r.log
    /\ db' = r.db
    /\ nRuns' = nRuns + 1

\* lines 127-139: the row of the dataset
dataset_row(test_case, pipeline_output) ==
    [question |-> test_case.question,
     answer |-> pipeline_output.v.final_answer,
     contexts |-> context_info(pipeline_output),
     ground_truth |-> test_case.expected_answer]

Prepared(r) ==
    /\ Ran(r)
    /\ loc' = [loc EXCEPT !.i = @ + 1,
                          !.dataset = Append(@, dataset_row(arg[loc.i + 1], r.ret))]

\* lines 161-166: the run counts when it reports no execution error
Counted(r) ==
    /\ Ran(r)
    /\ loc' = [loc EXCEPT !.i = @ + 1,
                          !.execution_successful =
                              IF isinstance(r.ret.v.execution_error, "NoneType")
                              THEN @ + 1 ELSE @]

Detailed(r) ==
    /\ Ran(r)
    /\ loc' = [loc EXCEPT !.i = @ + 1,
                          !.detailed_results =
                              Append(@, case_result(loc.i, arg[loc.i + 1], r.ret))]

\* prepare_ragas_dataset lines 123-139, one test case
PrepareCase ==
    /\ pc = "prepare_ragas_dataset"
    /\ loc.i < Len(arg)
    /\ \E e \in EvalRunEnvs(arg[loc.i + 1].question) :
          Prepared(PipelineRun("prepare_ragas_dataset", e))
    /\ UNCHANGED <<pc, run, ret, stdout, escaped, chats, log, openConns, arg, handlers>>

\* evaluate_pipeline lines 206-214: ragas scores every row of the dataset, or
\* fails, which is logged and leaves an empty frame
RagasEvaluate ==
    /\ pc = "prepare_ragas_dataset"
    /\ loc.i = Len(arg)
    /\ \E ok \in BOOLEAN :
          IF ok
          THEN /\ loc' = [loc EXCEPT !.i = 0, !.ragas_scores = loc.dataset]
               /\ evalLog' = evalLog
          ELSE /\ loc' = [loc EXCEPT !.i = 0]
               /\ evalLog' = emit(evalLog, [level |-> "ERROR",
                                            tag |-> "RAGAs evaluation failed",
                                            question |-> <<>>,
                                            v |-> Str(<<"evaluation error">>)], handlers)
    /\ pc' = "evaluate_sql_correctness"
    /\ UNCHANGED <<run, ret, stdout, escaped, calls, chats, log, db, openConns, nRuns,
                   arg, handlers>>

\* evaluate_sql_correctness lines 157-171, one test case
SqlCase ==
    /\ pc = "evaluate_sql_correctness"
    /\ loc.i < Len(arg)
    /\ \E e \in EvalRunEnvs(arg[loc.i + 1].question) :
          Counted(PipelineRun("evaluate_sql_correctness", e))
    /\ UNCHANGED <<pc, run, ret, stdout, escaped, chats, log, openConns, arg, handlers>>

\* evaluate_sql_correctness lines 173-177: the divisions by total_cases raise
\* ZeroDivisionError on an empty list, which leaves evaluate_pipeline
SqlReturn ==
    /\ pc = "evaluate_sql_correctness"
    /\ loc.i = Len(arg)
    /\ IF Len(arg) = 0
       THEN /\ escaped' = [raised |-> TRUE, msg |-> <<"division by zero">>]
            /\ pc' = "idle"
            /\ loc' = loc
       ELSE /\ escaped' = escaped
            /\ pc' = "_evaluate_components"
            /\ loc' = [loc EXCEPT !.i = 0,
                                  !.sql_metrics =
                                      Dict([sql_syntax_accuracy |->
                                                Float(loc.execution_successful, Len(arg)),
                                            sql_execution_success_rate |->
                                                Float(loc.execution_successful, Len(arg)),
                                            sql_semantic_accuracy |-> Float(0, 1)])]
    /\ UNCHANGED <<run, ret, stdout, calls, chats, log, evalLog, db, openConns, nRuns,
                   arg, handlers>>

\* _evaluate_components lines 262-268, one test case
ComponentCase ==
    /\ pc = "_evaluate_components"
    /\ loc.i < Len(arg)
    /\ \E c \in ComponentReplies(arg[loc.i + 1].question) :
          LET q == arg[loc.i + 1].question
              r == enhance_question(q, c)
          IN /\ calls' = Append(calls, [fn |-> "enhance_question", args |-> <<Str(q)>>,
                                        env |-> c, by |-> "_evaluate_components",
                                        out |-> r.out])
             /\ chats' = chats \o r.requests
             /\ loc' = [loc EXCEPT !.i = @ + 1,
                                   !.grammar_improvements =
                                       IF r.out.value # Str(q) THEN @ + 1 ELSE @]
    /\ UNCHANGED <<pc, run, ret, stdout, escaped, log, evalLog, db, openConns, nRuns,
                   arg, handlers>>

\* _evaluate_components lines 270-273
ComponentsReturn ==
    /\ pc = "_evaluate_components"
    /\ loc.i = Len(arg)
    /\ loc' = [loc EXCEPT !.i = 0,
                          !.component_metrics =
                              Dict([grammar_enhancement_rate |->
                                        Float(loc.grammar_improvements, Len(arg)),
                                    pipeline_completion_rate |-> Float(1, 1)])]
    /\ pc' = "detailed_results"
    /\ UNCHANGED <<run, ret, stdout, escaped, calls, chats, log, evalLog, db, openConns,
                   nRuns, arg, handlers>>

\* evaluate_pipeline lines 233-250, one test case
DetailedCase ==
    /\ pc = "detailed_results"
    /\ loc.i < Len(arg)
    /\ \E e \in EvalRunEnvs(arg[loc.i + 1].question) :
          Detailed(PipelineRun("evaluate_pipeline", e))
    /\ UNCHANGED <<pc, run, ret, stdout, escaped, chats, log, openConns, arg, handlers>>

\* evaluate_pipeline lines 223-230, 252-253
EvaluateReturn ==
    /\ pc = "detailed_results"
    /\ loc.i = Len(arg)
    /\ evalLog' = emit(evalLog, EvalMessage("Evaluation completed"), handlers)
    /\ ret' = Dict([total_test_cases |-> Len(arg),
                    ragas_metrics |-> loc.ragas_scores,
                    sql_metrics |-> loc.sql_metrics,
                    component_metrics |-> loc.component_metrics,
                    detailed_results |-> loc.detailed_results])
    /\ pc' = "idle"
    /\ UNCHANGED <<run, loc, stdout, escaped, calls, chats, log, db, openConns, nRuns,
                   arg, handlers>>

NextEval ==
    \/ Construct
    \/ RunEvaluation
    \/ \E n \in 0..MaxCases : EvaluateStart(n)
    \/ PrepareCase
    \/ RagasEvaluate
    \/ SqlCase
    \/ SqlReturn
    \/ ComponentCase
    \/ ComponentsReturn
    \/ DetailedCase
    \/ EvaluateReturn

EvalSpec == InitEval /\ [][NextEval]_vars

---------------------------------------------------------------------------
(* What a finished run reports *)

CallsOf(fn) == { i \in 1..Len(calls) : calls[i].fn = fn }

Invoked(fn) == CallsOf(fn) # {}

\* execute_sql returned (did not raise) and its second component is a string
ReturnedError(call) ==
    /\ call.fn = "execute_sql"
    /\ ~call.out.raised
    /\ isinstance(call.out.value.v[2], "str")

\* the run ended with an answer: run_pipeline_step returned its record, or main
\* returned after printing its last line
HasFinalAnswer ==
    /\ pc = "done"
    /\ IF run.entry = "step" THEN isinstance(ret, "dict")
       ELSE ~escaped.raised /\ stdout # <<>>

FinalAnswer ==
    IF run.entry = "step" THEN ret.v.final_answer.v ELSE stdout[Len(stdout)].v.v

ErrorMarkers == {"Error: ", "Pipeline Error: ", ExecErrorMarker}

IsErrorAnswer(text) == text # <<>> /\ Head(text) \in ErrorMarkers

---------------------------------------------------------------------------
(* Claims *)

\* C1: in a run in which execute_sql returns the error-string variant,
\* interpret_result is never invoked, the run is over, and its final answer is
\* the executor's error string, verbatim, behind an error marker:
\* run_pipeline_step puts "Error: " in front of it, main prints the string as it
\* is, which starts with the executor's own marker.
C1_ErrorExitSkipsInterpretation ==
    \A i \in 1..Len(calls) :
        ReturnedError(calls[i]) =>
            LET err == calls[i].out.value.v[2].v
            IN /\ ~Invoked("interpret_result")
               /\ HasFinalAnswer
               /\ FinalAnswer = IF run.entry = "step" THEN <<"Error: ">> \o err ELSE err
               /\ IsErrorAnswer(FinalAnswer)
               /\ Head(err) = ExecErrorMarker

C1_Witness ==
    /\ pc = "done"
    /\ run.entry = "main"
    /\ \E i \in 1..Len(calls) : ReturnedError(calls[i])
    /\ stdout[Len(stdout)].v = Str(<<ExecErrorMarker, "no such table: nonexistent_table">>)

\* C2: a run of main that ends in success or in an execution error has called
\* log_interaction exactly once.
C2_OneTracePerRun ==
    (pc = "done" /\ run.entry = "main" /\ ~escaped.raised) =>
        Cardinality(CallsOf("log_interaction")) = 1

\* C3: when the model call of the Generator or of the Interpreter fails, no
\* exception leaves the entry point and the run ends with the final answer
\* "Pipeline Error: <message>".
C3_NoExceptionEscapes ==
    \A i \in 1..Len(calls) :
        (calls[i].fn \in {"generate_sql", "interpret_result"} /\ calls[i].out.raised) =>
            /\ ~escaped.raised
            /\ HasFinalAnswer
            /\ FinalAnswer = <<"Pipeline Error: ">> \o calls[i].out.msg

\* C4: execute_sql on a database file that cannot be opened does not raise and
\* returns (None, error string with the marker).
C4_UnreachableDbIsAnErrorString ==
    \A i \in 1..Len(calls) :
        (calls[i].fn = "execute_sql" /\ ~calls[i].env.reachable) =>
            /\ ~calls[i].out.raised
            /\ isinstance(calls[i].out.value.v[1], "NoneType")
            /\ isinstance(calls[i].out.value.v[2], "str")
            /\ Head(calls[i].out.value.v[2].v) = ExecErrorMarker

\* C5: when the database rejects the statement (syntax error, missing table),
\* execute_sql returns the pair (None, marker followed by the database's
\* message); and whatever it returns, the column list is None exactly when the
\* second component is an error string.
C5_FailedExecutionIsErrorVariant ==
    [][ (pc = "execute" /\ pc' # "execute") =>
            LET call == calls'[Len(calls')]
                r == sqlite3_execute(call.args[1].v, db)
            IN /\ (call.env.reachable /\ r.raised) =>
                      call.out = Ok([t |-> "tuple",
                                     v |-> <<None, Str(<<ExecErrorMarker>> \o r.msg)>>])
               /\ ~call.out.raised =>
                      (isinstance(call.out.value.v[1], "NoneType")
                          <=> isinstance(call.out.value.v[2], "str")) ]_vars

C5_Witness ==
    /\ pc = "done"
    /\ \E i \in 1..Len(calls) :
          /\ calls[i].fn = "execute_sql"
          /\ calls[i].args = <<Str(<<InvalidSql>>)>>
          /\ calls[i].out = Ok([t |-> "tuple",
                                v |-> <<None, Str(<<ExecErrorMarker,
                                                    "near \"INVALID\": syntax error">>)>>])

\* C6: no connection opened by execute_sql is still open once it has returned
\* or raised, whichever way it ended.
C6_NoConnectionLeftOpen == openConns = 0

C6_Witness ==
    /\ openConns = 0
    /\ \E i \in 1..Len(calls) :
          /\ ReturnedError(calls[i])
          /\ calls[i].args = <<Str(<<DeleteSql>>)>>
          /\ calls[i].out.value.v[2].v[2] = "'NoneType' object is not iterable"
    /\ \E i \in 1..Len(calls) : calls[i].fn = "execute_sql" /\ calls[i].env.reachable

\* C7: when the Enhancer's model call fails, enhance_question returns the
\* question it was given, unchanged, and does not raise; Generation comes next
\* and gets that question; the failure is not what the run reports: an error
\* answer or an escaping exception comes from a later stage.
C7_EnhancerFallsBackToQuestion ==
    \A i \in 1..Len(calls) :
        (calls[i].fn = "enhance_question" /\ calls[i].env.raised) =>
            /\ calls[i].out = Ok(Str(run.question))
            /\ calls[i].args = <<Str(run.question)>>
            /\ pc = "generate" \/ (Len(calls) > i /\ calls[i + 1].fn = "generate_sql")
            /\ \A j \in CallsOf("generate_sql") : calls[j].args[2] = Str(run.question)
            /\ (HasFinalAnswer /\ IsErrorAnswer(FinalAnswer)) =>
                   /\ FinalAnswer # <<"Pipeline Error: ">> \o calls[i].env.msg
                   /\ \E j \in (i + 1)..Len(calls) :
                          calls[j].out.raised \/ ReturnedError(calls[j])
            /\ escaped.raised =>
                   \E j \in (i + 1)..Len(calls) :
                       calls[j].out.raised /\ calls[j].out.msg = escaped.msg

C7_Witness ==
    /\ pc = "done"
    /\ run.question = <<" ", "Give I all customer name">>
    /\ calls[1].fn = "enhance_question"
    /\ calls[1].env.raised
    /\ HasFinalAnswer
    /\ ~IsErrorAnswer(FinalAnswer)

StageOrder == <<"enhance_question", "generate_sql", "execute_sql", "interpret_result">>

\* C8: the stages are called in the order Enhancer, Generator, Executor,
\* Interpreter, each at most once and only after the one before it returned;
\* the Generator gets the Enhancer's output, the Executor the Generator's
\* output unchanged, the Interpreter the enhanced question, the SQL and the
\* columns and rows the Executor returned.
C8_StagesInOrderWithDataFlow ==
    LET stages == SelectSeq(calls, LAMBDA c : c.fn # "log_interaction")
    IN /\ Len(stages) <= Len(StageOrder)
       /\ \A i \in 1..Len(stages) :
             /\ stages[i].fn = StageOrder[i]
             /\ i > 1 => ~stages[i - 1].out.raised
       /\ Len(stages) >= 1 => stages[1].args = <<Str(run.question)>>
       /\ Len(stages) >= 2 => stages[2].args[2] = stages[1].out.value
       /\ Len(stages) >= 3 => stages[3].args = <<stages[2].out.value>>
       /\ Len(stages) >= 4 =>
             stages[4].args = << stages[1].out.value, stages[2].out.value,
                                 stages[3].out.value.v[2], stages[3].out.value.v[1] >>

C8_Witness ==
    /\ pc = "done"
    /\ Len(calls) >= 4
    /\ calls[4].fn = "interpret_result"
    /\ ~calls[4].out.raised
    /\ calls[1].out.value # Str(run.question)
    /\ calls[2].env.content # calls[2].out.value.v
    /\ Len(calls[4].args[3].v) = NumCustomers

\* C9 as stated: when the Generator's model call fails, the run goes on to the
\* Executor and ends as an execution failure, with no exception leaving
\* generate_sql.
C9_GeneratorFailureBecomesExecutionFailure ==
    \A i \in 1..Len(calls) :
        (calls[i].fn = "generate_sql" /\ calls[i].env.raised) =>
            /\ ~calls[i].out.raised
            /\ pc = "done" =>
                  \E j \in 1..Len(calls) : ReturnedError(calls[j])

\* C9 amended: when the Generator's model call fails, generate_sql raises that
\* error to its caller and the Executor is never invoked in the run;
\* run_pipeline_step reports "Pipeline Error: <message>" with no SQL, and main
\* lets the exception escape.
C9_GeneratorFailurePropagates ==
    \A i \in 1..Len(calls) :
        (calls[i].fn = "generate_sql" /\ calls[i].env.raised) =>
            /\ calls[i].out = Raise(calls[i].env.msg)
            /\ ~Invoked("execute_sql")
            /\ pc = "done"
            /\ IF run.entry = "step"
               THEN /\ ~escaped.raised
                    /\ isinstance(ret, "dict")
                    /\ ret.v.final_answer = Str(<<"Pipeline Error: ">> \o calls[i].env.msg)
                    /\ ret.v.execution_error = Str(calls[i].env.msg)
                    /\ ret.v.sql_query = None
               ELSE escaped = [raised |-> TRUE, msg |-> calls[i].env.msg]

C9_Witness ==
    /\ pc = "done"
    /\ run.entry = "step"
    /\ Len(calls) = 2
    /\ calls[2].fn = "generate_sql"
    /\ calls[2].env.raised
    /\ isinstance(ret, "dict")

\* C10: for a result set of M rows and a max-rows bound N >= 0, the rows in the
\* prompt of interpret_result are the first min(M, N) rows of the input, in
\* order, each value under its column, and the row count the prompt states is
\* min(M, N).
C10_PromptHoldsFirstRows ==
    (pc = "returned" /\ arg.max_rows >= 0) =>
        LET M == Len(arg.data)
            N == arg.max_rows
            k == IF M <= N THEN M ELSE N
        IN /\ Len(chats) = 1
           /\ chats[1].prompt.preview_count = k
           /\ Len(chats[1].prompt.result_text) = k
           /\ \A r \in 1..k :
                 /\ Len(chats[1].prompt.result_text[r]) = Len(arg.columns)
                 /\ \A i \in 1..Len(arg.columns) :
                       chats[1].prompt.result_text[r][i] = <<arg.columns[i], arg.data[r][i]>>

C10_Witness ==
    /\ pc = "returned"
    /\ arg.max_rows = 2
    /\ Len(arg.data) = 3
    /\ arg.data[1] # arg.data[2]
    /\ Len(chats) = 1
    /\ chats[1].prompt.preview_count = 2

\* C11: when the Interpreter's model call fails, interpret_result raises that
\* error (no fallback text), and run_pipeline_step reports it as
\* "Pipeline Error: <message>", not as an execution error "Error: ...".
C11_InterpreterFailureIsPipelineError ==
    \A i \in 1..Len(calls) :
        (calls[i].fn = "interpret_result" /\ calls[i].env.raised) =>
            /\ calls[i].out = Raise(calls[i].env.msg)
            /\ pc = "done"
            /\ run.entry = "step" =>
                  /\ isinstance(ret, "dict")
                  /\ ret.v.final_answer = Str(<<"Pipeline Error: ">> \o calls[i].env.msg)
                  /\ Head(ret.v.final_answer.v) # "Error: "

C11_Witness ==
    /\ pc = "done"
    /\ run.entry = "step"
    /\ Len(calls) = 4
    /\ calls[4].fn = "interpret_result"
    /\ calls[4].env.raised
    /\ isinstance(ret, "dict")

LlmStages == {"enhance_question", "generate_sql", "interpret_result"}

TemplateOf(fn) ==
    CASE fn = "enhance_question" -> "enhance"
      [] fn = "generate_sql" -> "generate"
      [] fn = "interpret_result" -> "interpret"

\* C12: every call of enhance_question, generate_sql and interpret_result has
\* sent exactly one request to the model, a single user-role message built
\* from that stage's prompt, whether the call succeeded or failed; a run in
\* which all four stages succeeded has sent exactly three.
C12_OneRequestPerLlmStage ==
    LET llm == SelectSeq(calls, LAMBDA c : c.fn \in LlmStages)
    IN /\ Len(chats) = Len(llm)
       /\ \A k \in 1..Len(llm) :
             /\ k <= Len(chats)
             /\ chats[k].role = "user"
             /\ chats[k].prompt.template = TemplateOf(llm[k].fn)
       /\ (pc = "done" /\ Len(llm) = 3 /\ \A k \in 1..Len(calls) : ~calls[k].out.raised)
             => Len(chats) = 3

C12_Witness ==
    /\ pc = "done"
    /\ Len(chats) = 3
    /\ \E i \in 1..Len(calls) : calls[i].fn = "interpret_result" /\ ~calls[i].out.raised
    /\ \E i \in 1..Len(calls) : calls[i].fn = "enhance_question" /\ calls[i].env.raised

ValidQuestionPrompt == <<"Please provide a valid question">>

\* C13: a run on the empty question, with every model call succeeding, raises
\* neither in the Enhancer nor in the Generator and ends with the answer that
\* asks the user for a valid question.
C13_EmptyQuestionIsAskedAgain ==
    (/\ pc = "done"
     /\ run.question = <<>>
     /\ \A i \in 1..Len(calls) : calls[i].fn \in LlmStages => ~calls[i].env.raised) =>
        /\ \A i \in 1..Len(calls) :
               calls[i].fn \in {"enhance_question", "generate_sql"} => ~calls[i].out.raised
        /\ HasFinalAnswer
        /\ FinalAnswer = ValidQuestionPrompt

\* C14: execute_sql hands the text it is given to the database unchanged and
\* exactly once (never when the file cannot be opened), whatever the statement
\* is; a DROP statement it was given has been carried out.
C14_StatementExecutedAsGiven ==
    /\ \A i \in 1..Len(calls) :
          calls[i].fn = "execute_sql" =>
              /\ calls[i].executed =
                    IF calls[i].env.reachable THEN <<calls[i].args[1].v>> ELSE <<>>
              /\ (calls[i].env.reachable /\ strip(calls[i].args[1].v) = <<DropSql>>)
                    => ~db.exists
    /\ ~db.exists => db.rows = <<>>

C14_Witness ==
    /\ pc = "done"
    /\ ~db.exists
    /\ \E i \in 1..Len(calls) :
          /\ calls[i].fn = "execute_sql"
          /\ calls[i].executed = <<<<DropSql>>>>
          /\ ReturnedError(calls[i])

\* C16: when the schema file is missing or is not JSON, load_and_format_schema
\* raises FileNotFoundError, respectively JSONDecodeError, and returns nothing;
\* a run of main on such a file is over at once with that exception: the
\* question prompt was never shown and no stage was called.
C16_BrokenSchemaIsFatalBeforeAnyStage ==
    (run.entry = "main" /\ (~run.schema_source.exists \/ ~run.schema_source.parses)) =>
        /\ run.schema.raised
        /\ run.schema.value = None
        /\ run.schema.exc = IF ~run.schema_source.exists THEN "FileNotFoundError"
                            ELSE "JSONDecodeError"
        /\ pc = "done"
        /\ escaped = [raised |-> TRUE, msg |-> run.schema.msg]
        /\ stdout = <<>>
        /\ run.question = <<>>
        /\ calls = <<>>
        /\ chats = <<>>

C16_Witness ==
    /\ pc = "done"
    /\ run.entry = "main"
    /\ run.schema_source = MalformedFile
    /\ escaped.raised
    /\ nRuns = 2
    /\ log # <<>>

\* the tables of a document that has both levels, as <<name, columns object>>
WellFormed(doc) ==
    /\ HasKey(doc, "tables")
    /\ \A i \in 1..Len(Get(doc, "tables").v) : HasKey(Get(doc, "tables").v[i][2], "columns")

Tokens(text) == { text[i] : i \in 1..Len(text) }

\* every table name, column name and description of the table list appears
Renders(text, tables) ==
    \A i \in 1..Len(tables) :
        /\ tables[i][1] \in Tokens(text)
        /\ \A j \in 1..Len(tables[i][2].v) :
              /\ tables[i][2].v[j][1] \in Tokens(text)
              /\ Tokens(tables[i][2].v[j][2].v) \subseteq Tokens(text)

\* C17 as stated: a document keyed by table name at the top, each value a
\* mapping from column name to description, is accepted and every table and
\* column of it is rendered.
C17_FlatDocumentIsAccepted ==
    (/\ pc = "returned"
     /\ arg.exists /\ arg.parses
     /\ ~HasKey(arg.doc, "tables")) =>
        /\ ~calls[1].out.raised
        /\ isinstance(ret, "str")
        /\ Renders(ret.v, arg.doc.v)

\* C17 amended: the document must hold its tables under a top-level "tables"
\* key and each table's columns under a "columns" key; such a document is
\* accepted and every table, column and description of it is rendered.  A
\* document keyed by table name at the top is rejected with KeyError 'tables',
\* a table without the "columns" level with KeyError 'columns'.
C17_WrapperKeysAreRequired ==
    (pc = "returned" /\ arg.exists /\ arg.parses) =>
        IF WellFormed(arg.doc)
        THEN /\ ~calls[1].out.raised
             /\ isinstance(ret, "str")
             /\ Renders(ret.v, [i \in 1..Len(Get(arg.doc, "tables").v) |->
                                  <<Get(arg.doc, "tables").v[i][1],
                                    Get(Get(arg.doc, "tables").v[i][2], "columns")>>])
        ELSE /\ calls[1].out.raised
             /\ calls[1].out.exc = "KeyError"
             /\ calls[1].out.msg = IF HasKey(arg.doc, "tables") THEN <<"'columns'">>
                                   ELSE <<"'tables'">>
             /\ ret = None

C17_Witness ==
    /\ pc = "returned"
    /\ arg.exists /\ arg.parses
    /\ ~HasKey(arg.doc, "tables")
    /\ Len(arg.doc.v) = 2
    /\ calls[1].out.raised
    /\ calls[1].out.msg = <<"'tables'">>

\* a table takes a heading, a name and a line end, five tokens per column, and
\* the line end of the blank line
RECURSIVE Offset(_, _)
Offset(tables, t) ==
    IF t <= 1 THEN 0
    ELSE Offset(tables, t - 1) + 4 + 5 * Len(Get(tables[t - 1][2], "columns").v)

\* C18: for a document with both levels the text is, table after table in
\* document order, the line "Table: <name>", one line "  - <column>:
\* <description>" per column in document order, and an empty line, with every
\* name and description exactly as in the document and nothing else.
C18_RenderingFormat ==
    (pc = "returned" /\ arg.exists /\ arg.parses /\ WellFormed(arg.doc)) =>
        LET tables == Get(arg.doc, "tables").v
            out == ret.v
        IN /\ isinstance(ret, "str")
           /\ Len(out) = Offset(tables, Len(tables) + 1)
           /\ \A t \in 1..Len(tables) :
                 LET o == Offset(tables, t)
                     cols == Get(tables[t][2], "columns").v
                 IN /\ o + 4 + 5 * Len(cols) <= Len(out)
                    /\ SubSeq(out, o + 1, o + 3) = <<"Table: ", tables[t][1], "\n">>
                    /\ \A j \in 1..Len(cols) :
                          SubSeq(out, o + 5 * j - 1, o + 5 * j + 3) =
                              <<"  - ", cols[j][1], ": ", cols[j][2].v[1], "\n">>
                    /\ out[o + 4 + 5 * Len(cols)] = "\n"

C18_Witness ==
    /\ pc = "returned"
    /\ arg.exists /\ arg.parses /\ WellFormed(arg.doc)
    /\ Len(Get(arg.doc, "tables").v) = 2
    /\ Len(Get(Get(arg.doc, "tables").v[1][2], "columns").v) = 2
    /\ Len(Get(Get(arg.doc, "tables").v[2][2], "columns").v) = 1
    /\ Len(ret.v) = 23

\* C15 as stated: with a stub that echoes the question, enhance_question
\* returns the question it was given, for every question.
C15_EchoGivesQuestionBack ==
    (pc = "returned" /\ calls[1].env = Reply(arg)) => ret = Str(arg)

\* C15 amended: with a stub that echoes the question, enhance_question returns
\* the question without its leading and trailing whitespace, so it returns
\* the question itself exactly when the question neither begins nor ends with
\* whitespace.
C15_EchoGivesStrippedQuestion ==
    (pc = "returned" /\ calls[1].env = Reply(arg)) =>
        /\ isinstance(ret, "str")
        /\ \E i \in 0..Len(arg) : \E j \in 0..(Len(arg) - i) :
              /\ ret.v = SubSeq(arg, i + 1, Len(arg) - j)
              /\ \A k \in 1..i : IsWS(arg[k])
              /\ \A k \in (Len(arg) - j + 1)..Len(arg) : IsWS(arg[k])
              /\ ret.v # <<>> => (~IsWS(ret.v[1]) /\ ~IsWS(ret.v[Len(ret.v)]))
        /\ (ret = Str(arg)) <=>
              (arg = <<>> \/ (~IsWS(arg[1]) /\ ~IsWS(arg[Len(arg)])))

C15_Witness ==
    /\ pc = "returned"
    /\ calls[1].env = Reply(arg)
    /\ arg = <<" ", "show", "\n">>
    /\ ret = Str(<<"show">>)

InteractionTags == <<"USER QUESTION", "SQL GENERATED", "DB RESULT", "LLM EXPLANATION">>

IsInteraction(entry) == \E i \in 1..4 : entry.tag = InteractionTags[i]

InteractionCount(l) == Len(SelectSeq(l, IsInteraction))

\* the log_interaction calls made by the step from history before to history after
NewLogCalls(before, after) ==
    LET added == IF Len(after) >= Len(before)
                 THEN SubSeq(after, Len(before) + 1, Len(after))
                 ELSE after
    IN SelectSeq(added, LAMBDA c : c.fn = "log_interaction")

\* C19: every step leaves the entries already in the log as they are and in
\* place; the number of interaction entries grows by four for each
\* log_interaction call of the step, and those four are the last entries of
\* the log: the call's question, SQL, database result and explanation, in
\* that order.
C19_LogGrowsByFourPerInteraction ==
    [][ LET new == NewLogCalls(calls, calls')
            n == Len(log')
        IN /\ Len(log') >= Len(log)
           /\ SubSeq(log', 1, Len(log)) = log
           /\ InteractionCount(log') = InteractionCount(log) + 4 * Len(new)
           /\ Len(new) <= 1
           /\ Len(new) = 1 =>
                 /\ n >= Len(log) + 4
                 /\ \A i \in 1..4 : log'[n - 4 + i].tag = InteractionTags[i]
                 /\ log'[n - 3].v = new[1].args[1]
                 /\ log'[n - 2].v = new[1].args[2]
                 /\ log'[n - 1].v = new[1].args[3]
                 /\ log'[n].v = Str(new[1].args[4].v \o <<"\n">>)
      ]_vars

C19_Witness ==
    /\ pc = "done"
    /\ nRuns = 2
    /\ Cardinality(CallsOf("log_interaction")) = 1
    /\ InteractionCount(log) = 8
    /\ Len(log) > 8

\* what the execute_sql call returns when the run is the only one there is
SoloResult(call) ==
    LET o == execute_sql(call.args[1].v, TRUE, InitDB, FALSE)
    IN [t |-> "tuple", v |-> <<o.columns, o.results>>]

ExecCalls(r) == { i \in 1..Len(calls[r]) : calls[r][i].fn = "execute_sql" }

ErrorResult(msg) == [t |-> "tuple", v |-> <<None, Str(<<ExecErrorMarker>> \o msg)>>]

C21_EmptyResultIsSuccess ==
    \A i \in 1..Len(calls) :
        (/\ calls[i].fn = "execute_sql"
         /\ strip(calls[i].args[1].v) = <<SelNone>>
         /\ calls[i].env.reachable /\ ~calls[i].env.fetchFault
         /\ db.exists) =>
            /\ ~calls[i].out.raised
            /\ isinstance(calls[i].out.value.v[1], "list")
            /\ calls[i].out.value.v[1].v # <<>>
            /\ calls[i].out.value.v[2] = List(<<>>)
            /\ pc \in {"interpret", "done"}
            /\ pc = "done" =>
                  /\ Len(calls) > i
                  /\ calls[i + 1].fn = "interpret_result"
                  /\ calls[i + 1].args[3] = List(<<>>)
                  /\ chats[Len(chats)].prompt.preview_count = 0

C21_Witness ==
    /\ pc = "done"
    /\ Len(calls) >= 4
    /\ calls[3].fn = "execute_sql"
    /\ calls[3].out.value.v[2] = List(<<>>)
    /\ calls[4].fn = "interpret_result"
    /\ ~calls[4].out.raised

\* C22: in every pair (columns, rows) that execute_sql returns with a column
\* list, each row has as many values as there are column names, and the
\* interpret_result call on that pair does not fail on a row index.
C22_RowsAlignedWithColumns ==
    \A i \in 1..Len(calls) :
        (/\ calls[i].fn = "execute_sql"
         /\ ~calls[i].out.raised
         /\ isinstance(calls[i].out.value.v[1], "list")) =>
            /\ isinstance(calls[i].out.value.v[2], "list")
            /\ \A r \in 1..Len(calls[i].out.value.v[2].v) :
                  Len(calls[i].out.value.v[2].v[r]) = Len(calls[i].out.value.v[1].v)
            /\ Len(calls) > i =>
                  /\ calls[i + 1].fn = "interpret_result"
                  /\ calls[i + 1].out # Raise(<<"tuple index out of range">>)

C22_Witness ==
    /\ pc = "done"
    /\ Len(calls) >= 4
    /\ calls[3].fn = "execute_sql"
    /\ Len(calls[3].out.value.v[1].v) = 2
    /\ Len(calls[3].out.value.v[2].v) = NumCustomers
    /\ calls[4].fn = "interpret_result"
    /\ ~calls[4].out.raised

NoResultSet == { <<>>, <<DeleteSql>>, <<DropSql>> }

\* C25: a step of execute_sql on a statement the database runs without error
\* and without a result set (DELETE, DROP, the empty statement) has handed the
\* statement to the database, returns (None, error string), leaves no
\* connection open and ends the run without a call of interpret_result; the
\* table a DROP names is gone.
C25_NoResultSetIsAnErrorAfterExecution ==
    [][ (/\ pc = "execute"
         /\ pc' # "execute"
         /\ calls'[Len(calls')].env.reachable
         /\ ~calls'[Len(calls')].env.fetchFault
         /\ strip(calls'[Len(calls')].args[1].v) \in NoResultSet
         /\ (strip(calls'[Len(calls')].args[1].v) = <<>> \/ db.exists)) =>
            LET c == calls'[Len(calls')]
            IN /\ c.fn = "execute_sql"
               /\ c.executed = <<c.args[1].v>>
               /\ c.out = Ok([t |-> "tuple",
                              v |-> <<None, Str(<<ExecErrorMarker,
                                                 "'NoneType' object is not iterable">>)>>])
               /\ openConns' = 0
               /\ pc' = "done"
               /\ \A k \in 1..Len(calls') : calls'[k].fn # "interpret_result"
               /\ strip(c.args[1].v) = <<DropSql>> => ~db'.exists
               /\ strip(c.args[1].v) # <<DropSql>> => db' = db
      ]_vars

C25_Witness ==
    /\ pc = "done"
    /\ db.exists
    /\ Len(calls) = 3
    /\ calls[3].fn = "execute_sql"
    /\ calls[3].executed = <<<<DeleteSql>>>>
    /\ calls[3].out.value.v[1] = None

\* C26: when run_pipeline_step has ended through its exception handler, the
\* record it returned has enhanced_question equal to the original question
\* and sql_query, columns and results None, whichever stage raised and
\* whatever the earlier stages had produced.
C26_HandlerDiscardsStageOutputs ==
    (/\ pc = "done"
     /\ run.entry = "step"
     /\ \E i \in 1..Len(calls) : calls[i].out.raised) =>
        /\ isinstance(ret, "dict")
        /\ ret.v.original_question = Str(run.question)
        /\ ret.v.enhanced_question = Str(run.question)
        /\ ret.v.sql_query = None
        /\ ret.v.columns = None
        /\ ret.v.results = None

C26_Witness ==
    /\ pc = "done"
    /\ run.entry = "step"
    /\ Len(calls) = 4
    /\ calls[4].fn = "interpret_result"
    /\ calls[4].out.raised
    /\ calls[1].out.value # Str(run.question)
    /\ isinstance(calls[3].out.value.v[2], "list")
    /\ ret.v.enhanced_question = Str(run.question)

\* C24: after a call of interpret_result the list the caller passed holds
\* the rows it held before, all of them and in order, also when they are more
\* than max_rows and the prompt shows max_rows of them; the results that
\* run_pipeline_step returns and that main logs afterwards are those rows.
C24_CallerRowsAreLeftAlone ==
    \A i \in 1..Len(calls) :
        calls[i].fn = "interpret_result" =>
            /\ loc.results = calls[i].args[3]
            /\ loc.results = calls[i - 1].out.value.v[2]
            /\ chats[Len(chats)].prompt.preview_count =
                  Min(Len(calls[i].args[3].v), DefaultMaxRows)
            /\ (run.entry = "step" /\ ~calls[i].out.raised) =>
                  ret.v.results = calls[i].args[3]
            /\ (run.entry = "main" /\ ~calls[i].out.raised) =>
                  /\ log[Len(log) - 1].tag = "DB RESULT"
                  /\ log[Len(log) - 1].v = calls[i].args[3]
                  /\ calls[i + 1].args[3] = calls[i].args[3]

C24_Witness ==
    /\ pc = "done"
    /\ run.entry = "step"
    /\ Len(calls) = 4
    /\ calls[4].fn = "interpret_result"
    /\ Len(calls[4].args[3].v) > DefaultMaxRows
    /\ chats[Len(chats)].prompt.preview_count = DefaultMaxRows
    /\ Len(ret.v.results.v) = NumCustomers

---------------------------------------------------------------------------
(* Claims about the evaluator, checked under EvalSpec *)

Constructions == { k \in 1..Len(calls) : calls[k].fn = "RAGEvaluator" }

\* the records a step appended to the evaluation log
Written == SubSeq(evalLog', Len(evalLog) + 1, Len(evalLog'))

\* C29: every construction of a RAGEvaluator adds one file handler to the
\* shared "rag_evaluator" logger and none is ever removed, so the logger
\* holds as many handlers as evaluators were constructed, and a message
\* logged while it holds k handlers is written k times to the log.
C29_EveryConstructionAddsAHandler ==
    [][ /\ handlers = Cardinality(Constructions)
        /\ handlers' >= handlers
        /\ Len(evalLog') >= Len(evalLog)
        /\ SubSeq(evalLog', 1, Len(evalLog)) = evalLog
        /\ Written # <<>> =>
              /\ Len(Written) = handlers
              /\ \A j \in 1..Len(Written) : Written[j] = Written[1] ]_vars

\* two evaluators were constructed and the first message of the evaluation
\* stands twice in the log
C29_Witness ==
    /\ Cardinality(Constructions) = 2
    /\ handlers = 2
    /\ Len(evalLog) >= 2
    /\ evalLog[1] = EvalMessage("Starting evaluation")
    /\ evalLog[2] = evalLog[1]

RunEvaluationCalls == { k \in 1..Len(calls) : calls[k].fn = "run_evaluation" }

IsFloat(x) == x.t = "float"

\* C23: RAGEvaluator offers run_evaluation(), which completes without
\* raising and returns a mapping with the keys "sql_accuracy" and
\* "interpretation_quality", each holding a float.
C23_RunEvaluationReturnsMetrics ==
    \A k \in RunEvaluationCalls :
        /\ ~calls[k].out.raised
        /\ isinstance(calls[k].out.value, "dict")
        /\ "sql_accuracy" \in DOMAIN calls[k].out.value.v
        /\ "interpretation_quality" \in DOMAIN calls[k].out.value.v
        /\ IsFloat(calls[k].out.value.v["sql_accuracy"])
        /\ IsFloat(calls[k].out.value.v["interpretation_quality"])

PipelineRuns == SelectSeq(calls, LAMBDA c : c.fn = "run_pipeline_step")

ComponentCalls == SelectSeq(calls, LAMBDA c : c.fn = "enhance_question")

Completed == Started /\ pc = "idle" /\ isinstance(ret, "dict")

SucceededIn(runs, from, n) ==
    Cardinality({ i \in 1..n :
                    isinstance(runs[from + i].out.value.v.execution_error, "NoneType") })

\* C27: for n test cases evaluate_pipeline calls run_pipeline_step exactly 3n
\* times, once per case in prepare_ragas_dataset, then once per case in
\* evaluate_sql_correctness, then once per case for detailed_results, and
\* enhance_question n further times in _evaluate_components; the answer the
\* metrics score is the first pass's, sql_metrics counts the second pass, and
\* generated_answer and sql_query of detailed_results are the third pass's.
C27_ThreeRunsPerTestCase ==
    /\ Len(PipelineRuns) = nRuns
    /\ Started => nRuns <= 3 * Len(arg)
    /\ Completed =>
          LET n == Len(arg)
              runs == PipelineRuns
          IN /\ Len(runs) = 3 * n
             /\ Len(ComponentCalls) = n
             /\ Len(loc.dataset) = n
             /\ Len(ret.v.detailed_results) = n
             /\ ret.v.sql_metrics.v.sql_execution_success_rate
                    = Float(SucceededIn(runs, n, n), n)
             /\ \A i \in 1..n :
                   /\ runs[i].by = "prepare_ragas_dataset"
                   /\ runs[n + i].by = "evaluate_sql_correctness"
                   /\ runs[2 * n + i].by = "evaluate_pipeline"
                   /\ runs[i].args = <<Str(arg[i].question)>>
                   /\ runs[n + i].args = <<Str(arg[i].question)>>
                   /\ runs[2 * n + i].args = <<Str(arg[i].question)>>
                   /\ ComponentCalls[i].args = <<Str(arg[i].question)>>
                   /\ loc.dataset[i].answer = runs[i].out.value.v.final_answer
                   /\ ret.v.detailed_results[i].generated_answer
                          = runs[2 * n + i].out.value.v.final_answer
                   /\ ret.v.detailed_results[i].sql_query
                          = runs[2 * n + i].out.value.v.sql_query

\* an evaluation of two test cases is complete; for the first case the
\* scored answer is a model's explanation, the second pass counted a
\* failure, and detailed_results reports a third, failed run
C27_Witness ==
    /\ Completed
    /\ Len(arg) = 2
    /\ Len(PipelineRuns) = 6
    /\ isinstance(PipelineRuns[1].out.value.v.execution_error, "NoneType")
    /\ ~isinstance(PipelineRuns[3].out.value.v.execution_error, "NoneType")
    /\ ret.v.detailed_results[1].generated_answer # loc.dataset[1].answer
    /\ isinstance(ret.v.detailed_results[1].sql_query, "NoneType")
    /\ ~ret.v.detailed_results[1].execution_success

---------------------------------------------------------------------------
(* evaluation/test_cases.py and evaluation/ground_truth_generator.py: the  *)
(* two _execute_query helpers, generate_ground_truth_for_question and      *)
(* validate_ground_truth, next to execute_sql.  calls is the history of    *)
(* the calls made in the process, loc the list of ground truths generated  *)
(* so far, ret the last validation result, nRuns the number of calls.      *)

MaxCalls == 2

\* the outcome of a helper call: what it returns, the connections it opened
\* and closed, and the step that raised (none, connect, execute, fetch, columns)
HelperOutcome(raised, value, msg, opened, closed, fail, d) ==
    [raised |-> raised, value |-> value, msg |-> msg, opened |-> opened,
     closed |-> closed, fail |-> fail, db |-> d]

\* TestCaseGenerator._execute_query with conn.close() in the except branch too
TestCaseGenerator_execute_query_closing(query, reachable, d, fetchFault) ==
    IF ~reachable
    THEN HelperOutcome(FALSE, List(<<>>), <<"unable to open database file">>, 0, 0,
                       "connect", d)
    ELSE LET r == sqlite3_execute(query, d)
         IN IF r.raised
            THEN HelperOutcome(FALSE, List(<<>>), r.msg, 1, 1, "execute", r.after)
            ELSE IF fetchFault
            THEN HelperOutcome(FALSE, List(<<>>), <<"disk I/O error">>, 1, 1, "fetch", r.after)
            ELSE HelperOutcome(FALSE, List(r.rows), <<>>, 1, 1, "none", r.after)

\* test_cases.py lines 25-36: connect, execute and fetch inside the try,
\* conn.close() on the success path only, [] from the except branch
TestCaseGenerator_execute_query(query, reachable, d, fetchFault) ==
    IF ~reachable
    THEN HelperOutcome(FALSE, List(<<>>), <<"unable to open database file">>, 0, 0,
                       "connect", d)
    ELSE LET r == sqlite3_execute(query, d)
         IN IF r.raised
            THEN HelperOutcome(FALSE, List(<<>>), r.msg, 1, 0, "execute", r.after)
            ELSE IF fetchFault
            THEN HelperOutcome(FALSE, List(<<>>), <<"disk I/O error">>, 1, 0, "fetch", r.after)
            ELSE HelperOutcome(FALSE, List(r.rows), <<>>, 1, 1, "none", r.after)

\* the pair (columns, results) the ground truth helper returns
ColumnsAndResults(columns, results) == [t |-> "tuple", v |-> <<List(columns), List(results)>>]

\* GroundTruthGenerator._execute_query letting the exception out instead of
\* returning the empty pair
GroundTruthGenerator_execute_query_raising(query, reachable, d, fetchFault) ==
    IF ~reachable
    THEN HelperOutcome(TRUE, None, <<"unable to open database file">>, 0, 0, "connect", d)
    ELSE LET r == sqlite3_execute(query, d)
         IN IF r.raised
            THEN HelperOutcome(TRUE, None, r.msg, 1, 0, "execute", r.after)
            ELSE IF fetchFault
            THEN HelperOutcome(TRUE, None, <<"disk I/O error">>, 1, 0, "fetch", r.after)
            ELSE IF isinstance(r.description, "NoneType")
            THEN HelperOutcome(TRUE, None, <<"'NoneType' object is not iterable">>,
                               1, 0, "columns", r.after)
            ELSE HelperOutcome(FALSE,
                               ColumnsAndResults([i \in 1..Len(r.description.v) |->
                                                     r.description.v[i][1]], r.rows),
                               <<>>, 1, 1, "none", r.after)

\* ground_truth_generator.py lines 38-50: as above, with the column names read
\* from cursor.description (line 45) before the close, and ([], []) from the
\* except branch
GroundTruthGenerator_execute_query(query, reachable, d, fetchFault) ==
    IF ~reachable
    THEN HelperOutcome(FALSE, ColumnsAndResults(<<>>, <<>>),
                       <<"unable to open database file">>, 0, 0, "connect", d)
    ELSE LET r == sqlite3_execute(query, d)
         IN IF r.raised
            THEN HelperOutcome(FALSE, ColumnsAndResults(<<>>, <<>>), r.msg, 1, 0,
                               "execute", r.after)
            ELSE IF fetchFault
            THEN HelperOutcome(FALSE, ColumnsAndResults(<<>>, <<>>), <<"disk I/O error">>,
                               1, 0, "fetch", r.after)
            ELSE IF isinstance(r.description, "NoneType")
            THEN HelperOutcome(FALSE, ColumnsAndResults(<<>>, <<>>),
                               <<"'NoneType' object is not iterable">>, 1, 0, "columns",
                               r.after)
            ELSE HelperOutcome(FALSE,
                               ColumnsAndResults([i \in 1..Len(r.description.v) |->
                                                     r.description.v[i][1]], r.rows),
                               <<>>, 1, 1, "none", r.after)

\* "word" in question.lower(), for one of several words
Mentions(question, words) == \E i \in 1..Len(question) : question[i] \in words

IsSingleValue(results) == Len(results) = 1 /\ Len(results[1]) = 1

\* lines 91-120
generate_result_description(question, columns, results) ==
    IF results = <<>> THEN <<"No results found for this query.">>
    ELSE IF Mentions(question, {"count", "how many"})
    THEN (IF IsSingleValue(results) THEN <<"The count is ", results[1][1], ".">>
          ELSE <<"Found ", Len(results), " records.">>)
    ELSE IF Mentions(question, {"top", "limit"})
    THEN <<"Here are the top ", Min(Len(results), 5), " results from the query.">>
    ELSE IF Mentions(question, {"total", "sum"})
    THEN (IF IsSingleValue(results) THEN <<"The total is ", results[1][1], ".">>
          ELSE <<"Total calculation returned ", Len(results), " records.">>)
    ELSE IF Mentions(question, {"list", "show"})
    THEN <<"Here are ", Len(results), " records matching your query.">>
    ELSE <<"Query returned ", Len(results), " records with ", Len(columns), " columns.">>

\* lines 52-89, given the outcome h of the _execute_query call of line 64
generate_ground_truth_for_question(question, expected_sql, h) ==
    IF h.raised
    THEN [question |-> question, expected_sql |-> expected_sql,
          expected_columns |-> <<>>, expected_results |-> <<>>,
          expected_result_count |-> 0,
          execution_success |-> FALSE,
          execution_error |-> Str(h.msg),
          expected_description |-> <<"Error executing query: ">> \o h.msg]
    ELSE [question |-> question, expected_sql |-> expected_sql,
          expected_columns |-> h.value.v[1].v, expected_results |-> h.value.v[2].v,
          expected_result_count |-> Len(h.value.v[2].v),
          execution_success |-> TRUE,
          execution_error |-> None,
          expected_description |->
              generate_result_description(question, h.value.v[1].v, h.value.v[2].v)]

\* lines 186-199 applied to the entries of the list in order
RECURSIVE validation_errors(_)
validation_errors(gts) ==
    IF gts = <<>> THEN <<>>
    ELSE (IF gts[1].execution_success THEN <<>>
          ELSE <<[question |-> gts[1].question, sql |-> gts[1].expected_sql,
                  error |-> gts[1].execution_error]>>)
         \o validation_errors(Tail(gts))

\* lines 171-201
validate_ground_truth(gts) ==
    LET Successful == { i \in 1..Len(gts) : gts[i].execution_success }
    IN [total_cases |-> Len(gts),
        successful_executions |-> Cardinality(Successful),
        failed_executions |-> Len(gts) - Cardinality(Successful),
        empty_results |->
            Cardinality({ i \in Successful : gts[i].expected_result_count = 0 }),
        non_empty_results |->
            Cardinality({ i \in Successful : gts[i].expected_result_count # 0 }),
        validation_errors |-> validation_errors(gts)]

HelperQueries == { <<SelNames>>, <<SelMissing>>, <<DropSql>> }

\* the database can be opened and read, cannot be opened, or fails while
\* its rows are fetched
HelperFaults ==
    { [reachable |-> TRUE, fetchFault |-> FALSE],
      [reachable |-> FALSE, fetchFault |-> FALSE],
      [reachable |-> TRUE, fetchFault |-> TRUE] }

GroundTruthQuestions == { <<"list", " ", "customers">>, <<"customers">> }

CallRecord(fn, args, env, out, opened, closed, fail) ==
    [fn |-> fn, args |-> args, env |-> env, out |-> out, opened |-> opened,
     closed |-> closed, fail |-> fail]

InitGen ==
    /\ pc = "idle"
    /\ run = [entry |-> "generators", question |-> <<>>,
              schema_source |-> SchemaFile(SchemaDoc),
              schema |-> load_and_format_schema(SchemaFile(SchemaDoc))]
    /\ loc = <<>>
    /\ ret = None
    /\ stdout = <<>>
    /\ escaped = NoException
    /\ calls = <<>>
    /\ chats = <<>>
    /\ log = <<>>
    /\ evalLog = <<>>
    /\ db = InitDB
    /\ openConns = 0
    /\ nRuns = 0
    /\ arg = <<>>
    /\ handlers = 0

\* TestCaseGenerator._execute_query(query)
TestCaseQuery(query, f) ==
    /\ nRuns < MaxCalls
    /\ LET h == TestCaseGenerator_execute_query(query, f.reachable, db, f.fetchFault)
       IN /\ calls' = Append(calls, CallRecord("TestCaseGenerator._execute_query",
                                               <<Str(query)>>, f, Ok(h.value),
                                               h.opened, h.closed, h.fail))
          /\ stdout' = IF h.fail = "none" THEN stdout
                       ELSE Append(stdout, <<"Error executing query: ">> \o h.msg)
          /\ openConns' = openConns + h.opened - h.closed
          /\ db' = h.db
    /\ nRuns' = nRuns + 1
    /\ UNCHANGED <<pc, run, loc, ret, escaped, chats, log, evalLog, arg, handlers>>

\* one test case of generate_comprehensive_ground_truth (lines 135-147):
\* generate_ground_truth_for_question, which calls the helper (line 64)
GenerateGroundTruth(question, expected_sql, f) ==
    /\ nRuns < MaxCalls
    /\ LET h == GroundTruthGenerator_execute_query(expected_sql, f.reachable, db,
                                                   f.fetchFault)
           gt == generate_ground_truth_for_question(question, expected_sql, h)
       IN /\ calls' = calls
                \o << CallRecord("GroundTruthGenerator._execute_query",
                                 <<Str(expected_sql)>>, f,
                                 IF h.raised THEN Raise(h.msg) ELSE Ok(h.value),
                                 h.opened, h.closed, h.fail),
                      CallRecord("generate_ground_truth_for_question",
                                 <<Str(question), Str(expected_sql)>>, f, Ok(Dict(gt)),
                                 0, 0, "none") >>
          /\ openConns' = openConns + h.opened - h.closed
          /\ db' = h.db
          /\ loc' = Append(loc, gt)
    /\ nRuns' = nRuns + 1
    /\ UNCHANGED <<pc, run, ret, stdout, escaped, chats, log, evalLog, arg, handlers>>

\* execute_sql(query), for comparison
PipelineQuery(query, f) ==
    /\ nRuns < MaxCalls
    /\ LET r == execute_sql(query, f.reachable, db, f.fetchFault)
       IN /\ calls' = Append(calls, CallRecord("execute_sql", <<Str(query)>>, f,
                                               IF r.raised THEN Raise(r.msg)
                                               ELSE Ok([t |-> "tuple",
                                                        v |-> <<r.columns, r.results>>]),
                                               r.opened, r.closed,
                                               IF r.raised THEN "connect"
                                               ELSE IF is_error_result(r.results)
                                               THEN "execute" ELSE "none"))
          /\ openConns' = openConns + r.opened - r.closed
          /\ db' = r.db
    /\ nRuns' = nRuns + 1
    /\ UNCHANGED <<pc, run, loc, ret, stdout, escaped, chats, log, evalLog, arg, handlers>>

\* validate_ground_truth on the ground truths generated so far
ValidateGroundTruth ==
    /\ loc # <<>>
    /\ calls[Len(calls)].fn # "validate_ground_truth"
    /\ ret' = Dict(validate_ground_truth(loc))
    /\ calls' = Append(calls, CallRecord("validate_ground_truth", <<List(loc)>>, <<>>,
                                         Ok(Dict(validate_ground_truth(loc))), 0, 0,
                                         "none"))
    /\ UNCHANGED <<pc, run, loc, stdout, escaped, chats, log, evalLog, db, openConns,
                   nRuns, arg, handlers>>

\* a run of Python's cyclic garbage collector: the connections the helpers
\* left open are referenced only by the dead frame of the call (through the
\* traceback of the caught exception) and are closed when it is reclaimed
Collect ==
    /\ openConns > 0
    /\ openConns' = 0
    /\ calls' = Append(calls, CallRecord("gc.collect", <<>>, <<>>, Ok(None), 0,
                                         openConns, "none"))
    /\ UNCHANGED <<pc, run, loc, ret, stdout, escaped, chats, log, evalLog, db, nRuns,
                   arg, handlers>>

NextGen ==
    \/ \E query \in HelperQueries, f \in HelperFaults : TestCaseQuery(query, f)
    \/ \E question \in GroundTruthQuestions, query \in HelperQueries, f \in HelperFaults :
          GenerateGroundTruth(question, query, f)
    \/ \E query \in HelperQueries, f \in HelperFaults : PipelineQuery(query, f)
    \/ ValidateGroundTruth
    \/ Collect

GenSpec == InitGen /\ [][NextGen]_vars

---------------------------------------------------------------------------
(* Claims about the generators' helpers, checked under GenSpec *)

GenerateCalls == { k \in 1..Len(calls) : calls[k].fn = "generate_ground_truth_for_question" }

ValidateCalls == { k \in 1..Len(calls) : calls[k].fn = "validate_ground_truth" }

\* C28: generate_ground_truth_for_question reports execution_success = True
\* and execution_error = None for every expected SQL, also when its
\* execution failed and _execute_query returned the empty pair; so
\* validate_ground_truth counts no failed execution, lists no validation
\* error, and counts every case as successful.
C28_FailuresAreReportedAsSuccess ==
    /\ \A k \in GenerateCalls :
          /\ calls[k - 1].fn = "GroundTruthGenerator._execute_query"
          /\ ~calls[k - 1].out.raised
          /\ calls[k].out.value.v.execution_success
          /\ isinstance(calls[k].out.value.v.execution_error, "NoneType")
          /\ calls[k - 1].fail # "none" =>
                /\ calls[k - 1].out.value = ColumnsAndResults(<<>>, <<>>)
                /\ calls[k].out.value.v.expected_columns = <<>>
                /\ calls[k].out.value.v.expected_results = <<>>
                /\ calls[k].out.value.v.expected_result_count = 0
    /\ \A k \in ValidateCalls :
          LET v == calls[k].out.value.v
          IN /\ v.failed_executions = 0
             /\ v.validation_errors = <<>>
             /\ v.successful_executions = v.total_cases
             /\ v.total_cases = Len(calls[k].args[1].v)

\* a ground truth whose SQL failed to execute was generated next to one
\* whose SQL ran, and the validation counted both as successful
C28_Witness ==
    /\ \E k \in GenerateCalls : calls[k - 1].fail = "execute"
    /\ \E k \in GenerateCalls : calls[k - 1].fail = "none"
    /\ \E k \in ValidateCalls :
          /\ calls[k].out.value.v.total_cases = 2
          /\ calls[k].out.value.v.successful_executions = 2
          /\ calls[k].out.value.v.empty_results = 1

HelperNames == { "TestCaseGenerator._execute_query", "GroundTruthGenerator._execute_query" }

HelperCalls == { k \in 1..Len(calls) : calls[k].fn \in HelperNames }

\* the helper calls that returned through the except branch
FailedCalls == { k \in HelperCalls : calls[k].fail # "none" }

\* those of them in which the statement was sent to an open connection
FailedQueries == { k \in HelperCalls : calls[k].fail \in {"execute", "fetch", "columns"} }

Collections == { k \in 1..Len(calls) : calls[k].fn = "gc.collect" }

\* the calls that opened a connection and returned without closing it
Leaks == { k \in HelperCalls : calls[k].opened = 1 /\ calls[k].closed = 0 }

IsEmptyResult(c) ==
    IF c.fn = "TestCaseGenerator._execute_query" THEN c.out.value = List(<<>>)
    ELSE c.out.value = ColumnsAndResults(<<>>, <<>>)

\* C30 as stated: the helpers close their connection on the success path only,
\* a failed call returns the empty result with its connection open, and the
\* number of open connections equals the number of calls whose query failed,
\* while execute_sql closes on both paths.
C30_OpenConnectionsEqualFailedCalls ==
    /\ \A k \in HelperCalls :
          /\ calls[k].fail = "none" => calls[k].opened = 1 /\ calls[k].closed = 1
          /\ calls[k].fail # "none" => IsEmptyResult(calls[k]) /\ calls[k].closed = 0
    /\ \A k \in 1..Len(calls) :
          calls[k].fn = "execute_sql" => calls[k].closed = calls[k].opened
    /\ openConns = Cardinality(FailedQueries)

\* C30, amended: the helpers close their connection on the success path only;
\* a call in which executing, fetching or reading the column names raises
\* returns the empty result with its connection open, a call whose connect
\* raises returns it with no connection opened, and a connection left open
\* stays open until the garbage collector reclaims it, so the number of open
\* connections is the number of such calls since the last collection, at
\* most the number of calls whose query failed; execute_sql closes every
\* connection it opens.
C30_LeakedUntilCollected ==
    /\ \A k \in HelperCalls :
          /\ ~calls[k].out.raised
          /\ calls[k].fail = "none" => calls[k].opened = 1 /\ calls[k].closed = 1
          /\ calls[k].fail = "connect" =>
                IsEmptyResult(calls[k]) /\ calls[k].opened = 0 /\ calls[k].closed = 0
          /\ calls[k].fail \in {"execute", "fetch", "columns"} =>
                IsEmptyResult(calls[k]) /\ calls[k].opened = 1 /\ calls[k].closed = 0
    /\ \A k \in 1..Len(calls) :
          calls[k].fn = "execute_sql" => calls[k].closed = calls[k].opened
    /\ Leaks = FailedQueries
    /\ openConns = Cardinality({ k \in Leaks : \A g \in Collections : g < k })
    /\ openConns <= Cardinality(FailedQueries)

\* both helpers failed, one in execute and one on a statement without a
\* result set, a collection ran in between, and one connection is open
C30_Witness ==
    /\ \E k \in FailedCalls :
          calls[k].fn = "TestCaseGenerator._execute_query" /\ calls[k].fail = "execute"
    /\ \E k \in FailedCalls :
          calls[k].fn = "GroundTruthGenerator._execute_query" /\ calls[k].fail = "columns"
    /\ Collections # {}
    /\ Cardinality(FailedQueries) = 2
    /\ openConns = 1

=============================================================================
